---- MODULE Spec2Model ----
(***************************************************************************)
(* SAME header decoder (src/src/same_decoder.py): stream framing, header   *)
(* parsing, enrichment, persistence and snapshot publication, with the     *)
(* schema migrations of src/src/database_migrations.py that run at         *)
(* startup.                                                                *)
(*                                                                         *)
(* A Python str is modelled as a sequence of characters, each character a  *)
(* one-character string, so that strip, split, startswith, isdigit and     *)
(* int() are computed as Python computes them.                             *)
(***************************************************************************)
EXTENDS Integers, Sequences, FiniteSets, TLC

(* ---------------------------------------------------------------------- *)
(* Characters                                                             *)
(* ---------------------------------------------------------------------- *)

\* The decimal digits 0-9, with their values.
DecDigits == {"0", "1", "2", "3", "4", "5", "6", "7", "8", "9"}

DigitVal(c) ==
  CASE c = "0" -> 0 [] c = "1" -> 1 [] c = "2" -> 2 [] c = "3" -> 3
    [] c = "4" -> 4 [] c = "5" -> 5 [] c = "6" -> 6 [] c = "7" -> 7
    [] c = "8" -> 8 [] c = "9" -> 9

\* U+00B2 SUPERSCRIPT TWO: a character for which str.isdigit() is True and
\* which int() rejects (it is a digit, not a decimal).
Sup2 == "^2"

\* The characters str.isdigit() accepts.
PyDigits == DecDigits \cup {Sup2}

\* The characters str.strip() removes.
Whitespace == {" ", "\n"}

(* ---------------------------------------------------------------------- *)
(* str methods                                                            *)
(* ---------------------------------------------------------------------- *)

\* s.startswith(p)
StartsWith(s, p) == Len(s) >= Len(p) /\ SubSeq(s, 1, Len(p)) = p

\* s.endswith(c) for a one-character c
EndsWith(s, c) == Len(s) >= 1 /\ s[Len(s)] = c

\* s.strip()
Strip(s) ==
  LET keep == {i \in 1..Len(s) : s[i] \notin Whitespace}
  IN IF keep = {} THEN <<>>
     ELSE LET lo == CHOOSE i \in keep : \A j \in keep : i <= j
              hi == CHOOSE i \in keep : \A j \in keep : i >= j
          IN SubSeq(s, lo, hi)

\* s.rstrip(c) for a one-character c
RStrip(s, c) ==
  LET keep == {i \in 1..Len(s) : s[i] # c}
  IN IF keep = {} THEN <<>>
     ELSE SubSeq(s, 1, CHOOSE i \in keep : \A j \in keep : i >= j)

\* c in s
Contains(s, c) == \E i \in 1..Len(s) : s[i] = c

\* index of the first occurrence of c in s (c occurs in s)
FirstIndex(s, c) == CHOOSE i \in 1..Len(s) : s[i] = c /\ \A j \in 1..(i - 1) : s[j] # c

\* s.split(c): always at least one token, empty tokens kept
RECURSIVE Split(_, _)
Split(s, c) ==
  IF ~Contains(s, c) THEN <<s>>
  ELSE LET k == FirstIndex(s, c)
       IN <<SubSeq(s, 1, k - 1)>> \o Split(SubSeq(s, k + 1, Len(s)), c)

\* sep.join(parts)
RECURSIVE Join(_, _)
Join(parts, sep) ==
  IF parts = <<>> THEN <<>>
  ELSE IF Len(parts) = 1 THEN parts[1]
  ELSE parts[1] \o sep \o Join(Tail(parts), sep)

\* s.isdigit(): non-empty and every character a digit
IsDigit(s) == s # <<>> /\ \A i \in 1..Len(s) : s[i] \in PyDigits

\* whether int(s) returns (s passed isdigit): every character a decimal
IntOk(s) == s # <<>> /\ \A i \in 1..Len(s) : s[i] \in DecDigits

\* int(s) for a string of decimal digits
RECURSIVE ToInt(_)
ToInt(s) ==
  IF s = <<>> THEN 0
  ELSE 10 * ToInt(SubSeq(s, 1, Len(s) - 1)) + DigitVal(s[Len(s)])

(* ---------------------------------------------------------------------- *)
(* HeaderParser: validate_same_message_format, parse_same_message         *)
(* ---------------------------------------------------------------------- *)

\* The start marker "ZCZC-".
StartMarker == <<"Z", "C", "Z", "C", "-">>

\* The longest message validate_same_message_format accepts.
MaxMsgLen == 1000

\* validate_same_message_format without the start-marker check.
ValidateNoMarkerCheck(msg) ==
  LET m == Strip(msg)
  IN IF m = <<>> THEN [err |-> "empty_message", msg |-> m]
     ELSE IF Len(m) > MaxMsgLen THEN [err |-> "message_too_long", msg |-> m]
     ELSE [err |-> "none", msg |-> m]

\* validate_same_message_format: the stripped message, or the ValueError raised.
ValidateSameMessageFormat(msg) ==
  LET m == Strip(msg)
  IN IF m = <<>> THEN [err |-> "empty_message", msg |-> m]
     ELSE IF ~StartsWith(m, StartMarker) THEN [err |-> "no_start_marker", msg |-> m]
     ELSE IF Len(m) > MaxMsgLen THEN [err |-> "message_too_long", msg |-> m]
     ELSE [err |-> "none", msg |-> m]

\* The ValueError outcomes of parse_same_message.
ParseFail(e) ==
  [err |-> e, originator |-> <<>>, event_code |-> <<>>, fips_codes |-> <<>>,
   duration |-> <<>>, timestamp |-> <<>>, station_id |-> <<>>]

\* The stripped, non-empty tokens of parts[lo..hi], in order.
RECURSIVE CollectFips(_, _, _)
CollectFips(parts, lo, hi) ==
  IF lo > hi THEN <<>>
  ELSE LET f == Strip(parts[lo])
       IN (IF f # <<>> THEN <<f>> ELSE <<>>) \o CollectFips(parts, lo + 1, hi)

\* The field checks that follow the token scan (lines 203-225).
CheckFields(originator, event_code, fips_codes, duration, timestamp, station_id) ==
  IF originator = <<>> \/ event_code = <<>> \/ duration = <<>>
     \/ timestamp = <<>> \/ station_id = <<>>
  THEN ParseFail("missing_required_fields")
  ELSE IF fips_codes = <<>> THEN ParseFail("no_fips_codes")
  ELSE IF ~IsDigit(duration) \/ Len(duration) # 4 THEN ParseFail("invalid_duration")
  ELSE IF ~IsDigit(timestamp) \/ Len(timestamp) # 7 THEN ParseFail("invalid_timestamp")
  ELSE [err |-> "none", originator |-> originator, event_code |-> event_code,
        fips_codes |-> fips_codes, duration |-> duration,
        timestamp |-> timestamp, station_id |-> station_id]

\* ScanParts without the append of the area code that precedes '+'.
ScanPartsDropsLastArea(parts, originator, event_code) ==
  LET plus == {i \in 3..Len(parts) : Contains(parts[i], "+")}
  IN IF plus = {}
     THEN CheckFields(originator, event_code, CollectFips(parts, 3, Len(parts)),
                      <<>>, <<>>, <<>>)
     ELSE LET k == CHOOSE i \in plus : \A j \in plus : i <= j
              p == FirstIndex(parts[k], "+")
          IN IF k + 2 > Len(parts)
             THEN ParseFail("incomplete_after_duration")
             ELSE CheckFields(originator, event_code, CollectFips(parts, 3, k - 1),
                              SubSeq(parts[k], p + 1, Len(parts[k])),
                              Strip(parts[k + 1]), Strip(parts[k + 2]))

\* ScanParts reading the tokens after '+' with indices clamped to the last
\* token instead of raising on a missing one.
ScanPartsClampsIndex(parts, originator, event_code) ==
  LET plus == {i \in 3..Len(parts) : Contains(parts[i], "+")}
      Clamp(i) == IF i > Len(parts) THEN Len(parts) ELSE i
  IN IF plus = {}
     THEN CheckFields(originator, event_code, CollectFips(parts, 3, Len(parts)),
                      <<>>, <<>>, <<>>)
     ELSE LET k == CHOOSE i \in plus : \A j \in plus : i <= j
              p == FirstIndex(parts[k], "+")
              fips_part == Strip(SubSeq(parts[k], 1, p - 1))
          IN CheckFields(originator, event_code,
                         CollectFips(parts, 3, k - 1)
                           \o (IF fips_part # <<>> THEN <<fips_part>> ELSE <<>>),
                         SubSeq(parts[k], p + 1, Len(parts[k])),
                         Strip(parts[Clamp(k + 1)]), Strip(parts[Clamp(k + 2)]))

\* The scan of parts[2:] for the token holding '+' and the two tokens after it
\* (lines 176-201). Python's parts[i] is parts[i + 1] here.
ScanParts(parts, originator, event_code) ==
  LET plus == {i \in 3..Len(parts) : Contains(parts[i], "+")}
  IN IF plus = {}
     THEN \* no token holds '+': duration, timestamp and station_id stay None
          CheckFields(originator, event_code, CollectFips(parts, 3, Len(parts)),
                      <<>>, <<>>, <<>>)
     ELSE LET k == CHOOSE i \in plus : \A j \in plus : i <= j
              p == FirstIndex(parts[k], "+")
              fips_part == Strip(SubSeq(parts[k], 1, p - 1))
              duration == SubSeq(parts[k], p + 1, Len(parts[k]))
              fips_codes == CollectFips(parts, 3, k - 1)
                              \o (IF fips_part # <<>> THEN <<fips_part>> ELSE <<>>)
          IN IF k + 2 > Len(parts)
             THEN ParseFail("incomplete_after_duration")
             ELSE CheckFields(originator, event_code, fips_codes, duration,
                              Strip(parts[k + 1]), Strip(parts[k + 2]))

\* parse_same_message
ParseSameMessage(msg) ==
  LET v == ValidateSameMessageFormat(msg)
  IN IF v.err # "none" THEN ParseFail(v.err)
     ELSE LET parts == Split(RStrip(SubSeq(v.msg, 6, Len(v.msg)), "-"), "-")
          IN IF Len(parts) < 5 THEN ParseFail("too_few_parts")
             ELSE LET originator == Strip(parts[1])
                      event_code == Strip(parts[2])
                  IN IF originator = <<>> \/ event_code = <<>>
                     THEN ParseFail("empty_originator_or_event")
                     ELSE ScanParts(parts, originator, event_code)

(* ---------------------------------------------------------------------- *)
(* datetime: the calendar arithmetic behind datetime, timedelta,          *)
(* strftime and strptime                                                  *)
(* ---------------------------------------------------------------------- *)

IsLeap(y) == (y % 4 = 0 /\ y % 100 # 0) \/ y % 400 = 0

DaysInYear(y) == IF IsLeap(y) THEN 366 ELSE 365

DaysInMonth(y, m) ==
  IF m = 2 THEN (IF IsLeap(y) THEN 29 ELSE 28)
  ELSE IF m \in {4, 6, 9, 11} THEN 30 ELSE 31

\* The month and day of the d-th day counted from the first of month m.
RECURSIVE MonthDayFrom(_, _, _)
MonthDayFrom(y, m, d) ==
  IF d <= DaysInMonth(y, m) THEN <<m, d>>
  ELSE MonthDayFrom(y, m + 1, d - DaysInMonth(y, m))

\* The days of year y before month m.
RECURSIVE DaysBeforeMonth(_, _)
DaysBeforeMonth(y, m) ==
  IF m = 1 THEN 0 ELSE DaysBeforeMonth(y, m - 1) + DaysInMonth(y, m - 1)

\* The datetime that lies `total` minutes after (before, if negative)
\* January 1st 00:00 of year y.
RECURSIVE DatetimeAt(_, _)
DatetimeAt(y, total) ==
  IF total < 0 THEN DatetimeAt(y - 1, total + DaysInYear(y - 1) * 1440)
  ELSE IF total >= DaysInYear(y) * 1440 THEN DatetimeAt(y + 1, total - DaysInYear(y) * 1440)
  ELSE LET md == MonthDayFrom(y, 1, (total \div 1440) + 1)
       IN [year |-> y, month |-> md[1], day |-> md[2],
           hour |-> (total % 1440) \div 60, minute |-> total % 60]

\* dt + timedelta(minutes=n)
AddMinutes(dt, n) ==
  DatetimeAt(dt.year,
             (DaysBeforeMonth(dt.year, dt.month) + dt.day - 1) * 1440
               + dt.hour * 60 + dt.minute + n)

DigitChar(n) ==
  CASE n = 0 -> "0" [] n = 1 -> "1" [] n = 2 -> "2" [] n = 3 -> "3"
    [] n = 4 -> "4" [] n = 5 -> "5" [] n = 6 -> "6" [] n = 7 -> "7"
    [] n = 8 -> "8" [] n = 9 -> "9"

\* %d, %H, %M: two digits, zero padded
Pad2(n) == <<DigitChar(n \div 10), DigitChar(n % 10)>>

\* %Y
Pad4(n) == Pad2(n \div 100) \o Pad2(n % 100)

\* %b in the C locale
MonthAbbr ==
  <<<<"J", "a", "n">>,
    <<"F", "e", "b">>,
    <<"M", "a", "r">>,
    <<"A", "p", "r">>,
    <<"M", "a", "y">>,
    <<"J", "u", "n">>,
    <<"J", "u", "l">>,
    <<"A", "u", "g">>,
    <<"S", "e", "p">>,
    <<"O", "c", "t">>,
    <<"N", "o", "v">>,
    <<"D", "e", "c">>>>

\* dt.strftime("%b %d %Y, %H:%M UTC")
StrftimeUtc(dt) ==
  MonthAbbr[dt.month] \o <<" ">> \o Pad2(dt.day) \o <<" ">> \o Pad4(dt.year)
    \o <<",", " ">> \o Pad2(dt.hour) \o <<":">> \o Pad2(dt.minute)
    \o <<" ", "U", "T", "C">>

\* datetime.strptime(s, "%b %d %Y, %H:%M UTC"): ok is FALSE where strptime
\* raises ValueError. The strings parsed here are the ones StrftimeUtc and
\* the "Invalid timestamp (...)" fallback produce.
StrptimeUtc(s) ==
  LET none == [ok |-> FALSE, dt |-> [year |-> 0, month |-> 0, day |-> 0, hour |-> 0, minute |-> 0]]
  IN IF Len(s) # 22 THEN none
     ELSE LET mon == {m \in 1..12 : MonthAbbr[m] = SubSeq(s, 1, 3)}
              dd == SubSeq(s, 5, 6)
              yy == SubSeq(s, 8, 11)
              hh == SubSeq(s, 14, 15)
              mi == SubSeq(s, 17, 18)
          IN IF mon = {} \/ s[4] # " " \/ s[7] # " " \/ SubSeq(s, 12, 13) # <<",", " ">>
                \/ s[16] # ":" \/ SubSeq(s, 19, 22) # <<" ", "U", "T", "C">>
                \/ ~IntOk(dd) \/ ~IntOk(yy) \/ ~IntOk(hh) \/ ~IntOk(mi)
             THEN none
             ELSE LET m == CHOOSE x \in mon : TRUE
                  IN IF ToInt(dd) < 1 \/ ToInt(dd) > DaysInMonth(ToInt(yy), m)
                        \/ ToInt(hh) > 23 \/ ToInt(mi) > 59 \/ ToInt(yy) < 1
                     THEN none
                     ELSE [ok |-> TRUE,
                           dt |-> [year |-> ToInt(yy), month |-> m, day |-> ToInt(dd),
                                   hour |-> ToInt(hh), minute |-> ToInt(mi)]]

\* A number without padding (%-I).
Unpadded(n) == IF n >= 10 THEN Pad2(n) ELSE <<DigitChar(n)>>

\* dt.strftime("%b %d %Y, %-I:%M %p")
StrftimeLocal(dt) ==
  MonthAbbr[dt.month] \o <<" ">> \o Pad2(dt.day) \o <<" ">> \o Pad4(dt.year)
    \o <<",", " ">> \o Unpadded(((dt.hour + 11) % 12) + 1) \o <<":">> \o Pad2(dt.minute)
    \o <<" ">> \o (IF dt.hour < 12 THEN <<"A", "M">> ELSE <<"P", "M">>)

(* ---------------------------------------------------------------------- *)
(* AlertEnricher: format_julian_timestamp, resolve_region_descriptions,   *)
(* create_alert_data                                                      *)
(* ---------------------------------------------------------------------- *)

\* f"Invalid timestamp ({timestamp})"
InvalidTimestamp(timestamp) ==
  <<"I", "n", "v", "a", "l", "i", "d", " ", "t", "i", "m", "e", "s", "t", "a", "m", "p", " ", "(">> \o timestamp \o <<")">>

\* format_julian_timestamp, in the year `year` (datetime.now(timezone.utc).year).
\* Every ValueError raised inside it is caught by its own except clause.
FormatJulianTimestamp(timestamp, year) ==
  IF timestamp = <<>> \/ ~IsDigit(timestamp) \/ Len(timestamp) # 7
  THEN InvalidTimestamp(timestamp)
  ELSE IF ~IntOk(timestamp) THEN InvalidTimestamp(timestamp)
  ELSE LET jjj == ToInt(SubSeq(timestamp, 1, 3))
           hh == ToInt(SubSeq(timestamp, 4, 5))
           mm == ToInt(SubSeq(timestamp, 6, 7))
       IN IF ~(1 <= jjj /\ jjj <= 366) \/ ~(0 <= hh /\ hh <= 23) \/ ~(0 <= mm /\ mm <= 59)
          THEN InvalidTimestamp(timestamp)
          ELSE StrftimeUtc(DatetimeAt(year, (jjj - 1) * 1440 + hh * 60 + mm))

\* dict.get(key, default) on a table keyed by code
Lookup(table, key, default) == IF key \in DOMAIN table THEN table[key] ELSE default

\* f"Unknown Region ({fips})"
UnknownRegion(fips) ==
  <<"U", "n", "k", "n", "o", "w", "n", " ", "R", "e", "g", "i", "o", "n", " ", "(">> \o fips \o <<")">>

\* resolve_region_descriptions that passes over the codes it does not find.
ResolveKnownRegions(fips_codes, cache) ==
  LET known == SelectSeq(fips_codes, LAMBDA c : c \in DOMAIN cache.counties)
  IN [i \in 1..Len(known) |-> cache.counties[known[i]]]

\* resolve_region_descriptions
ResolveRegionDescriptions(fips_codes, cache) ==
  [i \in 1..Len(fips_codes) |->
     Lookup(cache.counties, fips_codes[i], UnknownRegion(fips_codes[i]))]

\* end_time when strptime raised
NoDatetime == [ok |-> FALSE, dt |-> [year |-> 0, month |-> 0, day |-> 0, hour |-> 0, minute |-> 0]]

\* create_alert_data, for a duration on which int() returns
CreateAlertData(parsed, msg, cache, year) ==
  LET formatted_time == FormatJulianTimestamp(parsed.timestamp, year)
      duration_minutes == ToInt(parsed.duration)
      dt_utc == StrptimeUtc(formatted_time)
  IN [originator |-> Lookup(cache.originators, parsed.originator, parsed.originator),
      event |-> Lookup(cache.events, parsed.event_code, parsed.event_code),
      event_code |-> parsed.event_code,
      fips_codes |-> parsed.fips_codes,
      region_descriptions |-> ResolveRegionDescriptions(parsed.fips_codes, cache),
      duration_minutes |-> duration_minutes,
      timestamp_utc |-> formatted_time,
      issued_code |-> parsed.timestamp,
      source |-> parsed.station_id,
      raw_message |-> msg,
      end_time |-> IF dt_utc.ok
                   THEN [ok |-> TRUE, dt |-> AddMinutes(dt_utc.dt, duration_minutes)]
                   ELSE NoDatetime]

(* ---------------------------------------------------------------------- *)
(* AlertStore row and LatestAlertPublisher snapshot                       *)
(* ---------------------------------------------------------------------- *)

\* sub in s
ContainsSub(s, sub) ==
  \E i \in 1..(Len(s) - Len(sub) + 1) : SubSeq(s, i, i + Len(sub) - 1) = sub

\* s.replace(sub, "")
RECURSIVE RemoveAll(_, _)
RemoveAll(s, sub) ==
  IF Len(s) < Len(sub) THEN s
  ELSE IF SubSeq(s, 1, Len(sub)) = sub
       THEN RemoveAll(SubSeq(s, Len(sub) + 1, Len(s)), sub)
       ELSE <<s[1]>> \o RemoveAll(Tail(s), sub)

County == <<"C", "o", "u", "n", "t", "y">>

\* A row whose event_code column holds the display name of the event.
AlertRowEventName(alert, now) ==
  [timestamp_utc |-> alert.timestamp_utc,
   originator |-> alert.originator,
   event |-> alert.event,
   event_code |-> alert.event,
   fips_codes |-> Join(alert.fips_codes, <<",">>),
   regions |-> Join(alert.region_descriptions, <<",", " ">>),
   duration_minutes |-> alert.duration_minutes,
   issued_code |-> alert.issued_code,
   source |-> alert.source,
   raw_message |-> alert.raw_message,
   created_at |-> now]

\* The row log_alert_to_db inserts; created_at is the column default
\* CURRENT_TIMESTAMP and the id is the row's position in the table.
AlertRow(alert, now) ==
  [timestamp_utc |-> alert.timestamp_utc,
   originator |-> alert.originator,
   event |-> alert.event,
   event_code |-> alert.event_code,
   fips_codes |-> Join(alert.fips_codes, <<",">>),
   regions |-> Join(alert.region_descriptions, <<",", " ">>),
   duration_minutes |-> alert.duration_minutes,
   issued_code |-> alert.issued_code,
   source |-> alert.source,
   raw_message |-> alert.raw_message,
   created_at |-> now]

\* The regions write_last_message publishes (lines 260-263).
DisplayRegions(regions) ==
  IF regions # <<>> /\ \A i \in 1..Len(regions) : ContainsSub(regions[i], County)
  THEN [i \in 1..Len(regions) |-> RemoveAll(regions[i], <<" ">> \o County)]
  ELSE regions

\* issued_local (lines 265-272): the UTC string converted to the local zone,
\* tz minutes east of UTC, or the string itself when it does not parse.
IssuedLocal(timestamp_utc, tz) ==
  LET dt_utc == StrptimeUtc(timestamp_utc)
  IN IF dt_utc.ok THEN StrftimeLocal(AddMinutes(dt_utc.dt, tz)) ELSE timestamp_utc

\* message_data of write_last_message (lines 275-284)
MessageData(alert, tz, now) ==
  [event |-> alert.event,
   event_code |-> alert.event_code,
   originator |-> alert.originator,
   source |-> alert.source,
   issued_local |-> IssuedLocal(alert.timestamp_utc, tz),
   duration_minutes |-> alert.duration_minutes,
   regions |-> DisplayRegions(alert.region_descriptions),
   updated |-> now]

(* ---------------------------------------------------------------------- *)
(* Inputs: header tokens, headers, stdin lines, reference tables          *)
(* ---------------------------------------------------------------------- *)

\* The largest number of lines on stdin.
MaxLines == 2

\* The largest number of area codes in a generated header.
MaxAreas == 2

tEAS == <<"E", "A", "S">>
tWXR == <<"W", "X", "R">>
tRWT == <<"R", "W", "T">>
tTOR == <<"T", "O", "R">>
a012057 == <<"0", "1", "2", "0", "5", "7">>
a012081 == <<"0", "1", "2", "0", "8", "1">>
a012101 == <<"0", "1", "2", "1", "0", "1">>
a012103 == <<"0", "1", "2", "1", "0", "3">>
a012115 == <<"0", "1", "2", "1", "1", "5">>
d0030 == <<"0", "0", "3", "0">>
d0130 == <<"0", "1", "3", "0">>
s2780415 == <<"2", "7", "8", "0", "4", "1", "5">>
s3662359 == <<"3", "6", "6", "2", "3", "5", "9">>
stWTSP == <<"W", "T", "S", "P", "/", "T", "V">>
stKXYZ == <<"K", "X", "Y", "Z">>

\* o-e-a1-...-an+d-rest1-...-restk-
HeaderBody(o, e, areas, d, rest) ==
  LET n == Len(areas)
      run == IF n = 0 THEN <<<<"+">> \o d>>
             ELSE SubSeq(areas, 1, n - 1) \o <<areas[n] \o <<"+">> \o d>>
  IN Join(<<o, e>> \o run \o rest, <<"-">>) \o <<"-">>

\* ZCZC-o-e-a1-...-an+d-rest1-...-restk-
MkHeader(o, e, areas, d, rest) == StartMarker \o HeaderBody(o, e, areas, d, rest)

\* The header of scripts/test_decoder.py and scripts/test_new_structure.py.
TestMessage ==
  MkHeader(tEAS, tRWT, <<a012057, a012081, a012101, a012103, a012115>>, d0030,
           <<s2780415, stWTSP>>)

\* Area-code runs of 1..MaxAreas codes, duplicates included.
AreaRuns == UNION {[1..n -> {a012057, a012103}] : n \in 1..MaxAreas}

\* Headers that follow the grammar, some with tokens after the station id.
WellFormedHeaders ==
  {MkHeader(oe[1], oe[2], areas, d, <<t, st>> \o extra) :
     oe \in {<<tEAS, tRWT>>, <<tWXR, tTOR>>}, areas \in AreaRuns,
     d \in {d0030, d0130}, t \in {s2780415, s3662359},
     st \in {stWTSP}, extra \in {<<>>, <<stKXYZ>>}}
  \cup {TestMessage}

\* Duration tokens: well formed, too short, too long, a letter, a leading
\* blank, superscript digits, empty.
DurationTokens ==
  {d0030, <<"0", "3", "0">>, <<"0", "0", "3", "0", "0">>, <<"0", "a", "3", "0">>, <<" ", "0", "3", "0">>, <<Sup2, Sup2, Sup2, Sup2>>, <<>>}

\* Timestamp tokens: well formed, day 0, day 367, hour 24, minute 60, six
\* digits, a leading blank, superscript digits, a letter, empty.
TimestampTokens ==
  {s2780415, s3662359, <<"0", "0", "0", "0", "4", "1", "5">>, <<"3", "6", "7", "0", "4", "1", "5">>, <<"2", "7", "8", "2", "4", "1", "5">>, <<"2", "7", "8", "0", "4", "6", "0">>, <<"2", "7", "8", "0", "4", "1">>,
   <<" ", "2", "7", "8", "0", "4", "1", "5">>, <<Sup2, Sup2, Sup2, Sup2, Sup2, Sup2, Sup2>>, <<"2", "7", "8", "0", "4", "x", "5">>, <<>>}

\* Headers with every duration token and every timestamp token.
FieldHeaders ==
  {MkHeader(tEAS, tRWT, <<a012057>>, d, <<t, stWTSP>>) :
     d \in DurationTokens, t \in TimestampTokens}

\* Headers cut short after the duration token, or with an empty token there.
TruncatedHeaders ==
  {MkHeader(tEAS, tRWT, areas, d0030, rest) :
     areas \in {<<a012057>>, <<a012057, a012081, a012103>>},
     rest \in {<<>>, <<s2780415>>, <<s2780415, <<>>, stKXYZ>>, <<<<>>, stWTSP>>}}

\* A well-formed header followed by a token that makes it longer than
\* MaxMsgLen characters.
LongHeader ==
  MkHeader(tEAS, tRWT, <<a012057>>, d0030,
           <<s2780415, stWTSP, [i \in 1..MaxMsgLen |-> "X"]>>)

\* Other headers: no start marker, blank, surrounding blanks, empty
\* originator, no area code, no duration separator, a non-numeric area code.
OtherHeaders ==
  {<<"N", "N", "N", "N", "-">> \o HeaderBody(tEAS, tRWT, <<a012057>>, d0030, <<s2780415, stWTSP>>),
   HeaderBody(tEAS, tRWT, <<a012057>>, d0030, <<s2780415, stWTSP>>),
   <<" ", " ">>,
   <<" ">> \o MkHeader(tEAS, tRWT, <<a012057>>, d0030, <<s2780415, stWTSP>>) \o <<" ">>,
   MkHeader(<<>>, tRWT, <<a012057>>, d0030, <<s2780415, stWTSP>>),
   MkHeader(tEAS, tRWT, <<>>, d0030, <<s2780415, stWTSP>>),
   StartMarker \o Join(<<tEAS, tRWT, a012057, d0030, s2780415, stWTSP>>, <<"-">>) \o <<"-">>,
   MkHeader(tEAS, tRWT, <<<<"A", "L", "L">>>>, d0030, <<s2780415, stWTSP>>),
   LongHeader}

\* The values of SAMEDEC_MSG.
EnvHeaders == WellFormedHeaders \cup FieldHeaders \cup TruncatedHeaders \cup OtherHeaders

\* The lines of stdin: a header, a header with surrounding blanks, a start
\* of a header without terminator, its continuation, a line of noise, a
\* header whose timestamp is out of range, a header without area code.
GoodLine == MkHeader(tEAS, tRWT, <<a012057>>, d0030, <<s2780415, stWTSP>>)

\* A header with a blank before and after it, as line.strip() meets it.
PaddedLine ==
  <<" ">> \o MkHeader(tWXR, tTOR, <<a012103, a012057>>, d0130, <<<<"0", "0", "1", "0", "0", "0", "0">>, stKXYZ>>) \o <<" ">>

Lines ==
  {GoodLine,
   PaddedLine,
   StartMarker \o Join(<<tEAS, tRWT, a012057>>, <<"-">>),
   <<"+">> \o Join(<<d0030, s2780415, stWTSP>>, <<"-">>) \o <<"-">>,
   <<"N", "N", "N", "N">>,
   MkHeader(tEAS, tRWT, <<a012057>>, d0030, <<<<"0", "0", "0", "2", "4", "6", "0">>, stWTSP>>),
   MkHeader(tEAS, tRWT, <<>>, d0030, <<s2780415, stWTSP>>)}

LineSeqs == UNION {[1..n -> Lines] : n \in 0..MaxLines}

\* The reference tables on disk (data/*.csv), keyed by code.
CatalogFull ==
  [originators |-> (tEAS :> <<"B", "r", "o", "a", "d", "c", "a", "s", "t", " ", "s", "t", "a", "t", "i", "o", "n">>),
   events |-> (tRWT :> <<"R", "e", "q", "u", "i", "r", "e", "d", " ", "W", "e", "e", "k", "l", "y", " ", "T", "e", "s", "t">>),
   counties |-> (a012057 :> <<"H", "i", "l", "l", "s", "b", "o", "r", "o", "u", "g", "h", " ", "C", "o", "u", "n", "t", "y">>)
                  @@ (a012103 :> <<"P", "i", "n", "e", "l", "l", "a", "s", " ", "C", "o", "u", "n", "t", "y">>)]

CatalogSparse ==
  [originators |-> <<>>,
   events |-> <<>>,
   counties |-> (a012057 :> <<"T", "a", "m", "p", "a">>)
                  @@ (a012103 :> <<"C", "o", "u", "n", "t", "y", " ", "o", "f", " ", "M", "a", "u", "i">>)]

\* _csv_cache before load_all_csv_data
EmptyCache == [originators |-> <<>>, events |-> <<>>, counties |-> <<>>]

(* ---------------------------------------------------------------------- *)
(* The alerts database                                                    *)
(* ---------------------------------------------------------------------- *)

\* database_migrations.CURRENT_SCHEMA_VERSION
CURRENT_SCHEMA_VERSION == 2

\* The columns migration_v0_to_v1 creates the alerts table with.
BaseColumns ==
  {"id", "timestamp_utc", "originator", "event", "fips_codes", "regions",
   "duration_minutes", "issued_code", "source", "raw_message"}

\* expected_columns of validate_schema
ExpectedColumns == BaseColumns \cup {"event_code", "created_at"}

\* The columns the INSERT of log_alert_to_db names.
InsertColumns == ExpectedColumns \ {"id", "created_at"}

\* The indexes migration_v1_to_v2 creates.
AllIndexes ==
  {"idx_alerts_timestamp", "idx_alerts_event_code", "idx_alerts_originator",
   "idx_alerts_created_at"}

\* SELECT version FROM schema_version ORDER BY id DESC LIMIT 1, or 0 when the
\* table is missing or empty (get_schema_version, lines 50-55).
LatestVersion(versions) ==
  IF versions = <<>> THEN 0 ELSE versions[Len(versions)]

\* The database files a run can find at startup: file says whether alerts.db
\* exists, versions are the rows of schema_version in id order, columns are
\* the columns of the alerts table ({} when there is no such table).
\* No database file yet.
FreshStore ==
  [file |-> FALSE, versions |-> <<>>, columns |-> {}, indexes |-> {}]

\* Left by an earlier run of run_migrations on a fresh store.
CurrentStore ==
  [file |-> TRUE, versions |-> <<1, 2>>, columns |-> ExpectedColumns,
   indexes |-> AllIndexes]

\* Made by the legacy init_db.py: the alerts table of version 1 and no
\* schema_version table.
LegacyStore ==
  [file |-> TRUE, versions |-> <<>>, columns |-> BaseColumns, indexes |-> {}]

\* What a run of run_migrations on LegacyStore with rows leaves behind:
\* version 1 recorded, event_code added, step 1->2 raised.
HalfMigratedStore ==
  [file |-> TRUE, versions |-> <<1>>, columns |-> BaseColumns \cup {"event_code"},
   indexes |-> {}]

\* What a run leaves behind that stopped after step 1->2 and before
\* set_schema_version(2): the columns and indexes of version 2, version 1
\* recorded.
InterruptedStore ==
  [file |-> TRUE, versions |-> <<1>>, columns |-> ExpectedColumns,
   indexes |-> AllIndexes]

\* An alerts table from elsewhere that lacks the source column.
NarrowStore ==
  [file |-> TRUE, versions |-> <<>>, columns |-> BaseColumns \ {"source"},
   indexes |-> {}]

\* What a run of run_migrations on NarrowStore leaves behind: both steps
\* recorded, validate_schema failed.
UnvalidatedStore ==
  [file |-> TRUE, versions |-> <<1, 2>>,
   columns |-> ExpectedColumns \ {"source"}, indexes |-> AllIndexes]

\* Written by a later release: a version above CURRENT_SCHEMA_VERSION.
NewerStore ==
  [file |-> TRUE, versions |-> <<1, 2, 3>>,
   columns |-> ExpectedColumns \cup {"severity"}, indexes |-> AllIndexes]

\* The process environments: the current year, the local zone in minutes
\* east of UTC, the tables on disk, the database file, and whether an
\* earlier run has left a row and a snapshot.
Environments ==
  {[year |-> 2024, tz |-> 0, csv |-> CatalogFull, prior |-> FALSE, store |-> FreshStore],
   [year |-> 2025, tz |-> -300, csv |-> CatalogSparse, prior |-> TRUE, store |-> CurrentStore],
   [year |-> 2024, tz |-> 0, csv |-> CatalogFull, prior |-> TRUE, store |-> LegacyStore],
   [year |-> 2025, tz |-> 0, csv |-> CatalogFull, prior |-> TRUE, store |-> HalfMigratedStore],
   [year |-> 2024, tz |-> 0, csv |-> CatalogFull, prior |-> FALSE, store |-> NarrowStore],
   [year |-> 2024, tz |-> 0, csv |-> CatalogSparse, prior |-> FALSE, store |-> UnvalidatedStore],
   [year |-> 2025, tz |-> -300, csv |-> CatalogSparse, prior |-> TRUE, store |-> NewerStore],
   [year |-> 2024, tz |-> 0, csv |-> CatalogFull, prior |-> FALSE, store |-> InterruptedStore]}

(* ---------------------------------------------------------------------- *)
(* State                                                                  *)
(* ---------------------------------------------------------------------- *)

VARIABLES
  env,          \* the process environment, one of Environments
  envMsg,       \* os.environ["SAMEDEC_MSG"], <<>> when unset
  isatty,       \* sys.stdin.isatty()
  stdin,        \* the lines of standard input, <<>> until main turns to it
  pos,          \* the number of lines read from stdin
  pc,           \* where main is: init_db, mig01, mig12, set_version,
                \* validate, stats, load_csv, stdin, ready, parse, enrich, persist,
                \* publish, dump, rename, exit
  buffer,       \* stream_decode_from_stdin's accumulation buffer
  msg,          \* the argument of the decode_same_message call in progress
  parsed,       \* the result of parse_same_message in that call
  alert,        \* the result of create_alert_data in that call, <<>> if none
  csvCache,     \* _csv_cache
  db,           \* alerts.db: file, versions, columns, indexes (see FreshStore)
  rows,         \* the rows of the alerts table, in id order
  backup,       \* alerts.db.backup: <<>> if no file, else the copy
  current_version, \* run_migrations' local variable, -1 before it is set
  snapshot,     \* the content of last_message.json, <<>> if no file
  tmpFile,      \* the content of last_message.json.tmp, <<>> if no file
  unlinkFailed, \* history: the latest os.unlink of the temporary file raised
  clock,        \* the wall clock, in ticks
  exitCode,     \* the process exit status, -1 while running
  startup,      \* history of initialize_database and load_all_csv_data
  calls,        \* history: one record per decode_same_message call
  outcomes,     \* history: how each finished call ended, "ok" or the error
  snapshotSrc   \* history: the message the snapshot was published for

vars ==
  <<env, envMsg, isatty, stdin, pos, pc, buffer, msg, parsed, alert, csvCache,
    db, rows, backup, current_version, snapshot, tmpFile, unlinkFailed, clock,
    exitCode, startup, calls, outcomes, snapshotSrc>>

\* The database file, its backup, and the migration bookkeeping.
dbVars == <<db, backup, current_version, startup>>

\* The branch main takes (lines 429-449).
Mode ==
  IF envMsg # <<>> THEN "env" ELSE IF ~isatty THEN "piped" ELSE "stream"

\* The alert an earlier run stored and published for GoodLine.
PriorAlert(e) == CreateAlertData(ParseSameMessage(GoodLine), GoodLine, e.csv, e.year)

\* INTEGER PRIMARY KEY AUTOINCREMENT: one more than the largest id so far.
NextId(table) == Len(table) + 1

\* An INSERT that skips a header the table already holds.
InsertRowOnce(table, row) ==
  IF \E i \in 1..Len(table) : table[i].raw_message = row.raw_message
  THEN table
  ELSE Append(table, [id |-> Len(table) + 1] @@ row)

\* The row an INSERT adds to the table.
InsertRow(table, row) == Append(table, [id |-> NextId(table)] @@ row)

\* The row of the earlier run, in the columns the alerts table has.
PriorRows(e) ==
  LET full == InsertRow(<<>>, AlertRow(PriorAlert(e), 0))[1]
  IN <<[c \in e.store.columns \cap DOMAIN full |-> full[c]]>>

\* A file json.dump has written and closed, and one it is still writing:
\* a proper prefix of the JSON text.
JsonFile(data) == [json |-> data, complete |-> TRUE]
PartialFile(data) == [json |-> data, complete |-> FALSE]

\* The values of SAMEDEC_MSG tried with an environment: every one of
\* EnvHeaders where the database is fresh or current, the test header where
\* it is in another state.
EnvHeadersFor(e) ==
  IF e.store \in {FreshStore, CurrentStore} THEN EnvHeaders ELSE {TestMessage}

\* The inputs on stdin tried with an environment: every one of LineSeqs
\* where the database is fresh, sequences of the good line and the padded
\* line where it is in another state.
LineSeqsFor(e) ==
  IF e.store = FreshStore
  THEN LineSeqs
  ELSE UNION {[1..n -> {GoodLine, PaddedLine}] : n \in 0..MaxLines}

Init ==
  /\ env \in Environments
  /\ \/ envMsg \in EnvHeadersFor(env) /\ isatty = TRUE /\ stdin = <<>>
     \/ envMsg = <<>> /\ isatty \in BOOLEAN /\ stdin = <<>>
  /\ pos = 0
  /\ pc = "init_db"
  /\ buffer = <<>>
  /\ msg = <<>>
  /\ parsed = ParseFail("not_called")
  /\ alert = <<>>
  /\ csvCache = EmptyCache
  /\ db = env.store
  /\ rows = IF env.prior THEN PriorRows(env) ELSE <<>>
  /\ backup = <<>>
  /\ current_version = -1
  /\ snapshot = IF env.prior THEN <<JsonFile(MessageData(PriorAlert(env), env.tz, 0))>> ELSE <<>>
  /\ snapshotSrc = IF env.prior THEN GoodLine ELSE <<>>
  /\ tmpFile = <<>>
  /\ unlinkFailed = FALSE
  /\ clock = 1
  /\ exitCode = -1
  /\ startup = [steps |-> <<>>, validated |-> FALSE, fault |-> FALSE,
                backups |-> 0, failed |-> FALSE, result |-> "none",
                raisedIn |-> "none"]
  /\ calls = <<>>
  /\ outcomes = <<>>

(* ---------------------------------------------------------------------- *)
(* Startup: initialize_database and load_all_csv_data                     *)
(* ---------------------------------------------------------------------- *)

\* An exception reaches main, which exits with status 1 (lines 454-456);
\* fault says whether the environment caused it (an I/O or lock error),
\* result how run_migrations ended ("true", "false" or "raised"), and step
\* the migration step that raised, "none" if it was no step.
Fatal(fault, result, step) ==
  /\ pc' = "exit"
  /\ exitCode' = 1
  /\ startup' = [startup EXCEPT !.failed = TRUE, !.fault = @ \/ fault,
                                !.result = result, !.raisedIn = step]

\* Where the loop of run_migrations (lines 189-194) goes with this version.
StepFor(version) ==
  IF version = 0 THEN "mig01" ELSE IF version = 1 THEN "mig12" ELSE "validate"

\* run_migrations that goes on to the steps without the copy.
RunMigrationsWithoutBackup ==
  /\ pc = "init_db"
  /\ \E readOk \in BOOLEAN, copyOk \in BOOLEAN :
       LET version == IF readOk THEN LatestVersion(db.versions) ELSE 0
           file == db.file \/ readOk
       IN /\ current_version' = version
          /\ db' = [db EXCEPT !.file = file]
          /\ IF version = CURRENT_SCHEMA_VERSION
             THEN /\ pc' = "stats"
                  /\ startup' = [startup EXCEPT !.fault = @ \/ ~readOk,
                                                !.result = "true"]
                  /\ UNCHANGED <<backup, exitCode>>
             ELSE IF version > CURRENT_SCHEMA_VERSION
             THEN Fatal(~readOk, "false", "none") /\ UNCHANGED backup
             ELSE IF ~file
             THEN /\ pc' = StepFor(version)
                  /\ startup' = [startup EXCEPT !.fault = @ \/ ~readOk]
                  /\ UNCHANGED <<backup, exitCode>>
             ELSE IF copyOk
             THEN /\ backup' = backup
                  /\ pc' = StepFor(version)
                  /\ startup' = [startup EXCEPT !.fault = @ \/ ~readOk,
                                                !.backups = @ + 1]
                  /\ UNCHANGED exitCode
             ELSE Fatal(TRUE, "raised", "none") /\ UNCHANGED backup
  /\ UNCHANGED <<unlinkFailed, env, envMsg, isatty, stdin, pos, buffer, msg, parsed, alert,
                 csvCache, rows, snapshot, tmpFile, clock, calls, outcomes,
                 snapshotSrc>>

\* run_migrations, lines 165-180: get_schema_version (0 when the read
\* raises), the two comparisons with CURRENT_SCHEMA_VERSION, and
\* backup_database. sqlite3.connect creates the file.
RunMigrations ==
  /\ pc = "init_db"
  /\ \E readOk \in BOOLEAN, copyOk \in BOOLEAN :
       LET version == IF readOk THEN LatestVersion(db.versions) ELSE 0
           file == db.file \/ readOk
       IN /\ current_version' = version
          /\ db' = [db EXCEPT !.file = file]
          /\ IF version = CURRENT_SCHEMA_VERSION
             THEN /\ pc' = "stats"
                  /\ startup' = [startup EXCEPT !.fault = @ \/ ~readOk,
                                                !.result = "true"]
                  /\ UNCHANGED <<backup, exitCode>>
             ELSE IF version > CURRENT_SCHEMA_VERSION
             THEN Fatal(~readOk, "false", "none") /\ UNCHANGED backup
             ELSE IF ~file
             THEN /\ pc' = StepFor(version)
                  /\ startup' = [startup EXCEPT !.fault = @ \/ ~readOk]
                  /\ UNCHANGED <<backup, exitCode>>
             ELSE IF copyOk
             THEN /\ backup' = <<[db |-> db', rows |-> rows]>>
                  /\ pc' = StepFor(version)
                  /\ startup' = [startup EXCEPT !.fault = @ \/ ~readOk,
                                                !.backups = @ + 1]
                  /\ UNCHANGED exitCode
             ELSE Fatal(TRUE, "raised", "none") /\ UNCHANGED backup
  /\ UNCHANGED <<unlinkFailed, env, envMsg, isatty, stdin, pos, buffer, msg, parsed, alert,
                 csvCache, rows, snapshot, tmpFile, clock, calls, outcomes,
                 snapshotSrc>>

\* migration_v0_to_v1: CREATE TABLE IF NOT EXISTS alerts, or sqlite raises.
MigrationV0ToV1 ==
  /\ pc = "mig01"
  /\ \E ok \in BOOLEAN :
       IF ok
       THEN /\ db' = [db EXCEPT !.file = TRUE,
                                !.columns = IF @ = {} THEN BaseColumns ELSE @]
            /\ startup' = [startup EXCEPT !.steps = Append(@, "v0_to_v1")]
            /\ pc' = "set_version"
            /\ UNCHANGED exitCode
       ELSE Fatal(TRUE, "raised", "v0_to_v1") /\ UNCHANGED db
  /\ UNCHANGED <<unlinkFailed, env, envMsg, isatty, stdin, pos, buffer, msg, parsed, alert,
                 csvCache, rows, backup, current_version, snapshot, tmpFile,
                 clock, calls, outcomes, snapshotSrc>>

\* The columns of the alerts table when migration_v1_to_v2 ends or raises.
\* Each ALTER TABLE commits on its own. SQLite refuses to add a column
\* whose default is CURRENT_TIMESTAMP to a table that holds rows.
ColumnsAfterV2(columns, table) ==
  IF table # <<>> /\ "created_at" \notin columns
  THEN columns \cup {"event_code"}
  ELSE columns \cup {"event_code", "created_at"}

\* migration_v1_to_v2 runs to its commit on these columns and rows.
V2Applies(columns, table) ==
  /\ columns # {}
  /\ table = <<>> \/ "created_at" \in columns

\* migration_v1_to_v2 whose error is logged and not raised: the loop goes on
\* to set_schema_version.
MigrationV1ToV2ErrorSwallowed ==
  /\ pc = "mig12"
  /\ \E ok \in BOOLEAN :
       IF ok /\ V2Applies(db.columns, rows)
       THEN /\ db' = [db EXCEPT !.columns = ColumnsAfterV2(@, rows),
                                !.indexes = @ \cup AllIndexes]
            /\ startup' = [startup EXCEPT !.steps = Append(@, "v1_to_v2")]
       ELSE /\ db' = db
            /\ startup' = [startup EXCEPT !.raisedIn = "v1_to_v2", !.fault = @ \/ ~ok]
  /\ pc' = "set_version"
  /\ UNCHANGED <<unlinkFailed, env, envMsg, isatty, stdin, pos, buffer, msg, parsed, alert,
                 csvCache, rows, backup, current_version, snapshot, tmpFile,
                 clock, exitCode, calls, outcomes, snapshotSrc>>

\* migration_v1_to_v2: the two columns and the four indexes are added where
\* missing, or sqlite raises.
MigrationV1ToV2 ==
  /\ pc = "mig12"
  /\ \E ok \in BOOLEAN :
       IF ~ok
       THEN Fatal(TRUE, "raised", "v1_to_v2") /\ UNCHANGED db
       ELSE IF V2Applies(db.columns, rows)
       THEN /\ db' = [db EXCEPT !.columns = ColumnsAfterV2(@, rows),
                                !.indexes = @ \cup AllIndexes]
            /\ startup' = [startup EXCEPT !.steps = Append(@, "v1_to_v2")]
            /\ pc' = "set_version"
            /\ UNCHANGED exitCode
       ELSE /\ db' = [db EXCEPT !.columns = IF @ = {} THEN @ ELSE ColumnsAfterV2(@, rows)]
            /\ Fatal(FALSE, "raised", "v1_to_v2")
  /\ UNCHANGED <<unlinkFailed, env, envMsg, isatty, stdin, pos, buffer, msg, parsed, alert,
                 csvCache, rows, backup, current_version, snapshot, tmpFile,
                 clock, calls, outcomes, snapshotSrc>>

\* set_schema_version(to_version) and current_version = to_version (lines
\* 192-194): one more row of schema_version, or sqlite raises.
SetSchemaVersion ==
  /\ pc = "set_version"
  /\ \E ok \in BOOLEAN :
       IF ok
       THEN /\ db' = [db EXCEPT !.versions = Append(@, current_version + 1)]
            /\ current_version' = current_version + 1
            /\ pc' = StepFor(current_version + 1)
            /\ UNCHANGED <<exitCode, startup>>
       ELSE Fatal(TRUE, "raised", "set_version") /\ UNCHANGED <<db, current_version>>
  /\ UNCHANGED <<unlinkFailed, env, envMsg, isatty, stdin, pos, buffer, msg, parsed, alert,
                 csvCache, rows, backup, snapshot, tmpFile, clock, calls,
                 outcomes, snapshotSrc>>

\* validate_schema (lines 196-202): True when no expected column is
\* missing; on False initialize_database raises RuntimeError.
ValidateSchema ==
  /\ pc = "validate"
  /\ \E ok \in BOOLEAN :
       IF ~ok
       THEN Fatal(TRUE, "raised", "none")
       ELSE IF ExpectedColumns \ db.columns # {}
       THEN Fatal(FALSE, "false", "none")
       ELSE /\ startup' = [startup EXCEPT !.validated = TRUE, !.result = "true"]
            /\ pc' = "stats"
            /\ UNCHANGED exitCode
  /\ UNCHANGED <<unlinkFailed, env, envMsg, isatty, stdin, pos, buffer, msg, parsed, alert,
                 csvCache, db, rows, backup, current_version, snapshot,
                 tmpFile, clock, calls, outcomes, snapshotSrc>>

\* initialize_database after run_migrations returned True (lines 73-75):
\* get_database_stats counts the rows of alerts, and raises without the table.
InitializeDatabase ==
  /\ pc = "stats"
  /\ \E ok \in BOOLEAN :
       IF ~ok
       THEN Fatal(TRUE, startup.result, "none")
       ELSE IF db.file /\ db.columns = {}
       THEN Fatal(FALSE, startup.result, "none")
       ELSE pc' = "load_csv" /\ UNCHANGED <<exitCode, startup>>
  /\ UNCHANGED <<unlinkFailed, env, envMsg, isatty, stdin, pos, buffer, msg, parsed, alert,
                 csvCache, db, rows, backup, current_version, snapshot,
                 tmpFile, clock, calls, outcomes, snapshotSrc>>

\* load_all_csv_data whose error is logged and not raised: main goes on with
\* the cache as it is.
LoadAllCsvDataErrorSwallowed ==
  /\ pc = "load_csv"
  /\ pc' = IF Mode = "env" THEN "ready" ELSE "stdin"
  /\ \E ok \in BOOLEAN :
       IF ok
       THEN csvCache' = env.csv /\ UNCHANGED startup
       ELSE /\ csvCache' = csvCache
            /\ startup' = [startup EXCEPT !.failed = TRUE, !.fault = TRUE]
  /\ UNCHANGED <<unlinkFailed, env, envMsg, isatty, stdin, pos, buffer, msg, parsed, alert,
                 db, rows, backup, current_version, snapshot, tmpFile, clock,
                 exitCode, calls, outcomes, snapshotSrc>>

\* load_all_csv_data: the four tables are cached, or a file is missing and
\* main exits with status 1.
LoadAllCsvData ==
  /\ pc = "load_csv"
  /\ \E ok \in BOOLEAN :
       IF ok
       THEN /\ pc' = IF Mode = "env" THEN "ready" ELSE "stdin"
            /\ csvCache' = env.csv
            /\ UNCHANGED <<exitCode, startup>>
       ELSE Fatal(TRUE, startup.result, "none") /\ UNCHANGED csvCache
  /\ UNCHANGED <<unlinkFailed, env, envMsg, isatty, stdin, pos, buffer, msg, parsed, alert,
                 db, rows, backup, current_version, snapshot, tmpFile, clock,
                 calls, outcomes, snapshotSrc>>

(* ---------------------------------------------------------------------- *)

\* The producer at the other end of stdin: the lines it writes, known to
\* the model from the moment main turns to sys.stdin (lines 441, 90).
StdinArrives ==
  /\ pc = "stdin"
  /\ stdin' \in LineSeqsFor(env)
  /\ pc' = "ready"
  /\ UNCHANGED <<unlinkFailed, env, envMsg, isatty, pos, buffer, msg, parsed, alert,
                 csvCache, db, rows, backup, current_version, snapshot,
                 tmpFile, clock, exitCode, startup, calls, outcomes,
                 snapshotSrc>>

(* The three input modes of main                                          *)
(* ---------------------------------------------------------------------- *)

\* The call decode_same_message(m), made after n lines of stdin were read.
HandOff(m, n) ==
  /\ msg' = m
  /\ calls' = Append(calls, [msg |-> m, rows |-> rows, snapshot |-> snapshot, pos |-> n])
  /\ pc' = "parse"

\* main, SAMEDEC_MSG set (lines 431-435)
MainEnv ==
  /\ pc = "ready"
  /\ Mode = "env"
  /\ HandOff(Strip(envMsg), pos)
  /\ UNCHANGED <<unlinkFailed, env, envMsg, isatty, stdin, pos, buffer, parsed, alert, csvCache,
                 rows, snapshot, tmpFile, clock, exitCode, outcomes, snapshotSrc, dbVars>>

\* sys.stdin.read(): every line with its newline
RECURSIVE ReadAll(_)
ReadAll(lines) ==
  IF lines = <<>> THEN <<>> ELSE Head(lines) \o <<"\n">> \o ReadAll(Tail(lines))

\* main, stdin not a terminal (lines 436-445)
MainPiped ==
  /\ pc = "ready"
  /\ Mode = "piped"
  /\ pos' = Len(stdin)
  /\ LET piped_input == Strip(ReadAll(stdin))
     IN IF piped_input # <<>>
        THEN HandOff(piped_input, Len(stdin)) /\ exitCode' = exitCode
        ELSE /\ pc' = "exit"
             /\ exitCode' = 0
             /\ UNCHANGED <<msg, calls>>
  /\ UNCHANGED <<unlinkFailed, env, envMsg, isatty, stdin, buffer, parsed, alert, csvCache,
                 rows, snapshot, tmpFile, clock, outcomes, snapshotSrc, dbVars>>

\* The loop with a framer that appends to a started header the lines that
\* do not begin with the start marker.
StreamReadLineAppendsContinuation ==
  /\ pc = "ready"
  /\ Mode = "stream"
  /\ pos < Len(stdin)
  /\ pos' = pos + 1
  /\ LET line == Strip(stdin[pos + 1])
     IN IF ~StartsWith(line, StartMarker) /\ buffer = <<>>
        THEN UNCHANGED <<buffer, msg, calls, pc>>
        ELSE /\ buffer' = buffer \o line
             /\ IF EndsWith(line, "-")
                THEN HandOff(buffer \o line, pos + 1)
                ELSE UNCHANGED <<msg, calls, pc>>
  /\ UNCHANGED <<unlinkFailed, env, envMsg, isatty, stdin, parsed, alert, csvCache, rows,
                 snapshot, tmpFile, clock, exitCode, outcomes, snapshotSrc, dbVars>>

\* One iteration of the loop of stream_decode_from_stdin (lines 90-99), up to
\* the call of decode_same_message.
StreamReadLine ==
  /\ pc = "ready"
  /\ Mode = "stream"
  /\ pos < Len(stdin)
  /\ pos' = pos + 1
  /\ LET line == Strip(stdin[pos + 1])
     IN IF ~StartsWith(line, StartMarker)
        THEN UNCHANGED <<buffer, msg, calls, pc>>
        ELSE /\ buffer' = buffer \o line
             /\ IF EndsWith(line, "-")
                THEN HandOff(buffer \o line, pos + 1)
                ELSE UNCHANGED <<msg, calls, pc>>
  /\ UNCHANGED <<unlinkFailed, env, envMsg, isatty, stdin, parsed, alert, csvCache, rows,
                 snapshot, tmpFile, clock, exitCode, outcomes, snapshotSrc, dbVars>>

\* End of stdin in stream mode: the loop ends and main returns.
StreamEnd ==
  /\ pc = "ready"
  /\ Mode = "stream"
  /\ pos = Len(stdin)
  /\ pc' = "exit"
  /\ exitCode' = 0
  /\ UNCHANGED <<unlinkFailed, env, envMsg, isatty, stdin, pos, buffer, msg, parsed, alert,
                 csvCache, rows, snapshot, tmpFile, clock, calls, outcomes,
                 snapshotSrc, dbVars>>

(* ---------------------------------------------------------------------- *)
(* decode_same_message                                                    *)
(* ---------------------------------------------------------------------- *)

\* Finish with the buffer emptied only when the call returned.
FinishKeepsBufferOnError(kind) ==
  /\ outcomes' = Append(outcomes, kind)
  /\ IF Mode = "stream"
     THEN /\ pc' = "ready"
          /\ buffer' = (IF kind = "ok" THEN <<>> ELSE buffer)
          /\ exitCode' = exitCode
     ELSE pc' = "exit" /\ buffer' = buffer /\ exitCode' = IF kind = "ok" THEN 0 ELSE 1

\* decode_same_message returns (kind = "ok") or raises. In stream mode the
\* loop logs the error, empties the buffer and goes on (lines 100-104); in
\* the other modes main exits, with status 1 on an error.
Finish(kind) ==
  /\ outcomes' = Append(outcomes, kind)
  /\ IF Mode = "stream"
     THEN pc' = "ready" /\ buffer' = <<>> /\ exitCode' = exitCode
     ELSE pc' = "exit" /\ buffer' = buffer /\ exitCode' = IF kind = "ok" THEN 0 ELSE 1

\* parse_same_message(msg) (line 407)
ParseMessage ==
  /\ pc = "parse"
  /\ parsed' = ParseSameMessage(msg)
  /\ IF parsed'.err = "none"
     THEN pc' = "enrich" /\ UNCHANGED <<buffer, exitCode, outcomes>>
     ELSE Finish(parsed'.err)
  /\ UNCHANGED <<unlinkFailed, env, envMsg, isatty, stdin, pos, msg, alert, csvCache, rows,
                 snapshot, tmpFile, clock, calls, snapshotSrc, dbVars>>

\* decode_same_message that goes from create_alert_data to write_last_message.
EnrichAlertThenPublish ==
  /\ pc = "enrich"
  /\ IF IntOk(parsed.duration)
     THEN /\ alert' = <<CreateAlertData(parsed, msg, csvCache, env.year)>>
          /\ pc' = "publish"
          /\ UNCHANGED <<buffer, exitCode, outcomes>>
     ELSE /\ alert' = alert
          /\ Finish("duration_not_int")
  /\ UNCHANGED <<unlinkFailed, env, envMsg, isatty, stdin, pos, msg, parsed, csvCache, rows,
                 snapshot, tmpFile, clock, calls, snapshotSrc, dbVars>>

\* create_alert_data(parsed, msg) (line 410); int(parsed['duration']) raises
\* ValueError on a digit that is no decimal.
EnrichAlert ==
  /\ pc = "enrich"
  /\ IF IntOk(parsed.duration)
     THEN /\ alert' = <<CreateAlertData(parsed, msg, csvCache, env.year)>>
          /\ pc' = "persist"
          /\ UNCHANGED <<buffer, exitCode, outcomes>>
     ELSE /\ alert' = alert
          /\ Finish("duration_not_int")
  /\ UNCHANGED <<unlinkFailed, env, envMsg, isatty, stdin, pos, msg, parsed, csvCache, rows,
                 snapshot, tmpFile, clock, calls, snapshotSrc, dbVars>>

\* log_alert_to_db that raises after the INSERT has been committed.
LogAlertToDbCommitsThenRaises ==
  /\ pc = "persist"
  /\ rows' = InsertRow(rows, AlertRow(alert[1], clock))
  /\ clock' = clock + 1
  /\ \E ok \in BOOLEAN :
       IF ok
       THEN pc' = "publish" /\ UNCHANGED <<buffer, exitCode, outcomes>>
       ELSE Finish("persistence_failure")
  /\ UNCHANGED <<unlinkFailed, env, envMsg, isatty, stdin, pos, msg, parsed, alert, csvCache,
                 snapshot, tmpFile, calls, snapshotSrc, dbVars>>

\* log_alert_to_db(alert) (line 413): the INSERT commits, or sqlite raises,
\* as it does when the table lacks a column the INSERT names.
LogAlertToDb ==
  /\ pc = "persist"
  /\ \E ok \in (IF InsertColumns \subseteq db.columns THEN BOOLEAN ELSE {FALSE}) :
       IF ok
       THEN /\ rows' = InsertRow(rows, AlertRow(alert[1], clock))
            /\ clock' = clock + 1
            /\ pc' = "publish"
            /\ UNCHANGED <<buffer, exitCode, outcomes>>
       ELSE /\ UNCHANGED <<rows, clock>>
            /\ Finish("persistence_failure")
  /\ UNCHANGED <<unlinkFailed, env, envMsg, isatty, stdin, pos, msg, parsed, alert, csvCache,
                 snapshot, tmpFile, calls, snapshotSrc, dbVars>>

\* write_last_message with the published path as its temporary path: the
\* snapshot is opened for writing in place.
OpenPublishedFile ==
  /\ pc = "publish"
  /\ \E ok \in BOOLEAN :
       IF ok
       THEN /\ tmpFile' = <<PartialFile(MessageData(alert[1], env.tz, clock))>>
            /\ snapshot' = tmpFile'
            /\ clock' = clock + 1
            /\ pc' = "dump"
            /\ UNCHANGED <<buffer, exitCode, outcomes>>
       ELSE /\ tmpFile' = <<>>
            /\ snapshot' = snapshot
            /\ clock' = clock
            /\ Finish("publish_failure")
  /\ UNCHANGED <<unlinkFailed, env, envMsg, isatty, stdin, pos, msg, parsed, alert, csvCache,
                 rows, calls, snapshotSrc, dbVars>>

\* A cleanup that does not remove the temporary file.
CleanupKeepsFile(file, unlinkOk) == file

\* The except clause of write_last_message (lines 295-304): the temporary
\* file, if there is one, is unlinked, and an error of os.unlink is passed
\* over, which leaves the file.
Cleanup(file, unlinkOk) == IF unlinkOk THEN <<>> ELSE file

\* write_last_message raises: the cleanup, then the error goes to the caller.
PublishFails ==
  /\ \E unlinkOk \in BOOLEAN :
       /\ tmpFile' = Cleanup(tmpFile, unlinkOk)
       /\ unlinkFailed' = (tmpFile # <<>> /\ ~unlinkOk)
  /\ Finish("publish_failure")

\* write_last_message, lines 259-288: message_data is built and the
\* temporary path opened for writing, or open raises.
OpenTempFile ==
  /\ pc = "publish"
  /\ \E ok \in BOOLEAN :
       IF ok
       THEN /\ tmpFile' = <<PartialFile(MessageData(alert[1], env.tz, clock))>>
            /\ unlinkFailed' = FALSE
            /\ clock' = clock + 1
            /\ pc' = "dump"
            /\ UNCHANGED <<buffer, exitCode, outcomes>>
       ELSE clock' = clock /\ PublishFails
  /\ UNCHANGED <<env, envMsg, isatty, stdin, pos, msg, parsed, alert, csvCache,
                 rows, snapshot, calls, snapshotSrc, dbVars>>

\* write_last_message, line 289: json.dump writes the whole text and the
\* file is closed, or the write raises and the temporary file is removed.
WriteTempFile ==
  /\ pc = "dump"
  /\ \E ok \in BOOLEAN :
       IF ok
       THEN /\ tmpFile' = <<JsonFile(tmpFile[1].json)>>
            /\ unlinkFailed' = FALSE
            /\ pc' = "rename"
            /\ UNCHANGED <<buffer, exitCode, outcomes>>
       ELSE PublishFails
  /\ UNCHANGED <<env, envMsg, isatty, stdin, pos, msg, parsed, alert, csvCache,
                 rows, snapshot, clock, calls, snapshotSrc, dbVars>>

\* write_last_message that raises after the rename has replaced the snapshot.
RenameThenRaise ==
  /\ pc = "rename"
  /\ snapshot' = tmpFile
  /\ snapshotSrc' = msg
  /\ tmpFile' = <<>>
  /\ \E ok \in BOOLEAN : Finish(IF ok THEN "ok" ELSE "publish_failure")
  /\ UNCHANGED <<unlinkFailed, env, envMsg, isatty, stdin, pos, msg, parsed, alert, csvCache,
                 rows, clock, calls, dbVars>>

\* write_last_message, lines 291-304: the temporary file is renamed over the
\* published path, or the rename raises and the temporary file is removed.
RenameTempFile ==
  /\ pc = "rename"
  /\ \E ok \in BOOLEAN :
       IF ok
       THEN /\ snapshot' = tmpFile
            /\ snapshotSrc' = msg
            /\ tmpFile' = <<>>
            /\ unlinkFailed' = FALSE
            /\ Finish("ok")
       ELSE /\ UNCHANGED <<snapshot, snapshotSrc>>
            /\ PublishFails
  /\ UNCHANGED <<env, envMsg, isatty, stdin, pos, msg, parsed, alert, csvCache,
                 rows, clock, calls, dbVars>>

\* update_eink.read_payload: what a reader of the published path gets.
ReadPayload(file) ==
  IF file = <<>> THEN [status |-> "no_file"]
  ELSE IF ~file[1].complete THEN [status |-> "invalid_json"]
  ELSE [status |-> "ok", data |-> file[1].json]

Next ==
  \/ RunMigrations
  \/ MigrationV0ToV1
  \/ MigrationV1ToV2
  \/ SetSchemaVersion
  \/ ValidateSchema
  \/ InitializeDatabase
  \/ LoadAllCsvData
  \/ StdinArrives
  \/ MainEnv
  \/ MainPiped
  \/ StreamReadLine
  \/ StreamEnd
  \/ ParseMessage
  \/ EnrichAlert
  \/ LogAlertToDb
  \/ OpenTempFile
  \/ WriteTempFile
  \/ RenameTempFile

Spec == Init /\ [][Next]_vars

(* ---------------------------------------------------------------------- *)
(* The SAME header grammar, as the specification states it                *)
(* ---------------------------------------------------------------------- *)

\* A non-empty string of decimal digits.
Numeric(s) == s # <<>> /\ \A i \in 1..Len(s) : s[i] \in DecDigits

\* The tokens of a header between the start marker and the terminator.
FieldTokens(h) == Split(RStrip(SubSeq(h, Len(StartMarker) + 1, Len(h)), "-"), "-")

\* The positions, from the third token on, of the tokens that hold '+'.
PlusTokens(toks) == {i \in 3..Len(toks) : Contains(toks[i], "+")}

\* The position of the duration token (there is one).
DurationIndex(toks) == CHOOSE i \in PlusTokens(toks) : \A j \in PlusTokens(toks) : i <= j

\* The part of the duration token after / before its first '+'.
DurationOf(tok) == SubSeq(tok, FirstIndex(tok, "+") + 1, Len(tok))
LastAreaOf(tok) == SubSeq(tok, 1, FirstIndex(tok, "+") - 1)

\* JJJHHMM with day 1..366, hour 0..23, minute 0..59.
TimestampInRange(t) ==
  /\ Len(t) = 7 /\ Numeric(t)
  /\ ToInt(SubSeq(t, 1, 3)) \in 1..366
  /\ ToInt(SubSeq(t, 4, 5)) \in 0..23
  /\ ToInt(SubSeq(t, 6, 7)) \in 0..59

\* h has the shape of a SAME header: start marker, originator, event code,
\* one or more numeric area codes, '+', 4-digit duration, 7-digit timestamp,
\* station id; further tokens may follow.
WellShaped(h) ==
  /\ StartsWith(h, StartMarker)
  /\ LET toks == FieldTokens(h)
     IN /\ Len(toks) >= 5
        /\ toks[1] # <<>> /\ toks[2] # <<>>
        /\ \A i \in 1..2 : \A j \in 1..Len(toks[i]) : toks[i][j] \notin Whitespace
        /\ PlusTokens(toks) # {}
        /\ LET k == DurationIndex(toks)
           IN /\ \A i \in 3..(k - 1) : Numeric(toks[i])
              /\ Numeric(LastAreaOf(toks[k]))
              /\ Len(DurationOf(toks[k])) = 4 /\ Numeric(DurationOf(toks[k]))
              /\ k + 2 <= Len(toks)
              /\ Len(toks[k + 1]) = 7 /\ Numeric(toks[k + 1])
              /\ toks[k + 2] # <<>>
              /\ \A j \in 1..Len(toks[k + 2]) : toks[k + 2][j] \notin Whitespace

\* The timestamp token of a header of that shape.
TimestampOf(h) == FieldTokens(h)[DurationIndex(FieldTokens(h)) + 1]

\* h is a header of the SAME grammar: of that shape, with day 1..366, hour
\* 0..23 and minute 0..59.
SatisfiesGrammar(h) == WellShaped(h) /\ TimestampInRange(TimestampOf(h))

\* The fields the grammar assigns to a header that satisfies it.
GrammarFields(h) ==
  LET toks == FieldTokens(h)
      k == DurationIndex(toks)
  IN [err |-> "none", originator |-> toks[1], event_code |-> toks[2],
      fips_codes |-> SubSeq(toks, 3, k - 1) \o <<LastAreaOf(toks[k])>>,
      duration |-> DurationOf(toks[k]),
      timestamp |-> toks[k + 1], station_id |-> toks[k + 2]]

(* ---------------------------------------------------------------------- *)
(* Properties                                                             *)
(* ---------------------------------------------------------------------- *)

\* A decode_same_message call has been made; the latest one.
Called == calls # <<>>
LastCall == calls[Len(calls)]

\* The latest call has returned or raised; how it ended.
Returned == Called /\ Len(outcomes) = Len(calls)
LastOutcome == outcomes[Len(outcomes)]

\* The latest call has left the store and the snapshot as it found them.
StoreUntouched == rows = LastCall.rows /\ snapshot = LastCall.snapshot

\* C1: in stream mode every row stored and every snapshot published comes
\* from a raw header that satisfies the SAME grammar.
C1_StoredAlertsFollowGrammar ==
  Mode = "stream" =>
    /\ \A i \in 1..Len(rows) : SatisfiesGrammar(rows[i].raw_message)
    /\ snapshot # <<>> => SatisfiesGrammar(snapshotSrc)

\* The header has the shape of a SAME header and its timestamp has a day,
\* hour or minute out of range.
TimestampOutOfRange(h) == WellShaped(h) /\ ~TimestampInRange(TimestampOf(h))

\* C2: a header whose timestamp has day 0, day 367 or more, hour 24 or more,
\* or minute 60 or more makes decode_same_message fail with the timestamp
\* format error, and adds no row and publishes no snapshot.
C2_OutOfRangeTimestampRejected ==
  (Called /\ TimestampOutOfRange(LastCall.msg)) =>
    /\ StoreUntouched
    /\ pc \notin {"enrich", "persist", "publish", "dump", "rename"}
    /\ Returned => LastOutcome = "invalid_timestamp"

\* The header has a duration token that is not four decimal digits, or the
\* token after it, blanks trimmed, is missing or not seven decimal digits.
DurationOrTimestampMalformed(h) ==
  /\ StartsWith(h, StartMarker)
  /\ LET toks == FieldTokens(h)
     IN /\ PlusTokens(toks) # {}
        /\ LET k == DurationIndex(toks)
               d == DurationOf(toks[k])
           IN \/ ~(Len(d) = 4 /\ Numeric(d))
              \/ k + 1 > Len(toks)
              \/ ~(Len(Strip(toks[k + 1])) = 7 /\ Numeric(Strip(toks[k + 1])))

\* C3: a header whose duration is not exactly 4 decimal digits or whose
\* timestamp is not exactly 7 decimal digits makes parse_same_message fail,
\* and decode_same_message adds no row and publishes no snapshot.
C3_MalformedDurationOrTimestampRejected ==
  (Called /\ DurationOrTimestampMalformed(LastCall.msg)) =>
    /\ StoreUntouched
    /\ pc \notin {"enrich", "persist", "publish", "dump", "rename"}
    /\ Returned => parsed.err # "none"

\* C4: a header that does not begin with "ZCZC-" makes decode_same_message
\* fail at parsing, with the rows and the snapshot as they were at the call.
C4_NoStartMarkerRejected ==
  (Called /\ ~StartsWith(LastCall.msg, StartMarker)) =>
    /\ StoreUntouched
    /\ pc \notin {"enrich", "persist", "publish", "dump", "rename"}
    /\ Returned => (LastOutcome = parsed.err
                    /\ parsed.err \in {"no_start_marker", "empty_message"})

\* A header without start marker was rejected while the store held a row
\* and a snapshot.
C4_Witness ==
  /\ Returned
  /\ LastCall.msg # <<>>
  /\ ~StartsWith(LastCall.msg, StartMarker)
  /\ LastOutcome = "no_start_marker"
  /\ rows # <<>> /\ snapshot # <<>>

\* C5 as stated: every header of the grammar, with or without tokens after
\* the station id, is parsed into the fields the grammar assigns to it.
C5_EveryWellFormedHeaderParsed ==
  (Called /\ pc # "parse" /\ SatisfiesGrammar(LastCall.msg)) =>
    parsed = GrammarFields(LastCall.msg)

\* C5, amended: every header of the grammar that is at most MaxMsgLen
\* characters long is parsed into originator, event code, the area codes in
\* order with duplicates kept, duration, timestamp and station id; tokens
\* after the station id are ignored.
C5_WellFormedHeaderParsed ==
  (Called /\ pc # "parse" /\ SatisfiesGrammar(LastCall.msg)
     /\ Len(LastCall.msg) <= MaxMsgLen) =>
    parsed = GrammarFields(LastCall.msg)

\* The header of the test scripts has been parsed into its six fields.
C5_Witness ==
  /\ pc = "enrich"
  /\ msg = TestMessage
  /\ parsed = [err |-> "none", originator |-> tEAS, event_code |-> tRWT,
               fips_codes |-> <<a012057, a012081, a012101, a012103, a012115>>,
               duration |-> d0030, timestamp |-> s2780415, station_id |-> stWTSP]

\* The first token of h that holds '+' is not followed by two tokens.
CutShortAfterDuration(h) ==
  LET toks == Split(RStrip(h, "-"), "-")
      plus == {i \in 1..Len(toks) : Contains(toks[i], "+")}
  IN /\ plus # {}
     /\ (CHOOSE i \in plus : \A j \in plus : i <= j) + 2 > Len(toks)

\* The errors for a header of the wrong structure.
GrammarErrors ==
  {"empty_message", "no_start_marker", "message_too_long", "too_few_parts",
   "empty_originator_or_event", "incomplete_after_duration",
   "missing_required_fields"}

\* C6: a header whose duration token is not followed by two tokens makes
\* parse_same_message fail with a grammar error, and no result of
\* parse_same_message has an empty timestamp or station id.
C6_CutShortHeaderRejected ==
  (Called /\ pc # "parse") =>
    /\ CutShortAfterDuration(LastCall.msg) => parsed.err \in GrammarErrors
    /\ parsed.err = "none" => (parsed.timestamp # <<>> /\ parsed.station_id # <<>>)

\* A header with five tokens and nothing but the timestamp after the
\* duration token was rejected as incomplete.
C6_Witness ==
  /\ Returned
  /\ CutShortAfterDuration(LastCall.msg)
  /\ LastOutcome = "incomplete_after_duration"

\* C7: duration_minutes is HH*60 + MM of the duration string HHMM, and the
\* end time is the issue time plus that many minutes.
C7_DurationIsHoursAndMinutes ==
  (pc \in {"persist", "publish", "dump", "rename"}) =>
    LET minutes == ToInt(SubSeq(parsed.duration, 1, 2)) * 60
                     + ToInt(SubSeq(parsed.duration, 3, 4))
        issued == StrptimeUtc(alert[1].timestamp_utc)
    IN /\ alert[1].duration_minutes = minutes
       /\ issued.ok => alert[1].end_time = [ok |-> TRUE, dt |-> AddMinutes(issued.dt, minutes)]

\* The framer of the specification: a line is discarded only when it does
\* not begin with the start marker and the buffer is empty. The pair of the
\* headers emitted and the buffer left, after `lines`.
RECURSIVE SpecFramer(_, _, _)
SpecFramer(lines, buf, emitted) ==
  IF lines = <<>> THEN <<emitted, buf>>
  ELSE LET line == Strip(Head(lines))
       IN IF ~StartsWith(line, StartMarker) /\ buf = <<>>
          THEN SpecFramer(Tail(lines), buf, emitted)
          ELSE IF EndsWith(line, "-")
               THEN SpecFramer(Tail(lines), <<>>, Append(emitted, buf \o line))
               ELSE SpecFramer(Tail(lines), buf \o line, emitted)

\* C8: in stream mode the headers handed to decode_same_message are the
\* ones that framer emits for the lines read: a header split across lines is
\* emitted once, as the concatenation of its lines.
C8_SplitHeaderEmittedWhole ==
  (Mode = "stream" /\ pc \in {"ready", "exit"}) =>
    [i \in 1..Len(calls) |-> calls[i].msg]
      = SpecFramer(SubSeq(stdin, 1, pos), <<>>, <<>>)[1]

\* The stripped lines stdin[lo + 1 .. hi] that begin with the start marker,
\* concatenated.
RECURSIVE MarkerLines(_, _)
MarkerLines(lo, hi) ==
  IF lo >= hi THEN <<>>
  ELSE MarkerLines(lo, hi - 1)
         \o (IF StartsWith(Strip(stdin[hi]), StartMarker) THEN Strip(stdin[hi]) ELSE <<>>)

\* The lines among the first n that are complete headers on their own.
CompleteHeaderLines(n) ==
  {j \in 1..n : StartsWith(Strip(stdin[j]), StartMarker) /\ EndsWith(Strip(stdin[j]), "-")}

\* The number of lines read when call i - 1 was made.
PosBefore(i) == IF i = 1 THEN 0 ELSE calls[i - 1].pos

\* C9: in stream mode a failed decode leaves the framer as a successful one
\* does: the buffer restarts empty, each later header is framed from the
\* lines after the previous hand-off alone, every complete header line read
\* has caused one decode, and the loop runs on to the end of the input.
C9_FailureDoesNotDisturbFramer ==
  Mode = "stream" =>
    /\ \A i \in 1..Len(calls) : calls[i].msg = MarkerLines(PosBefore(i), calls[i].pos)
    /\ pc = "ready" => buffer = MarkerLines(PosBefore(Len(calls) + 1), pos)
    /\ Len(calls) = Cardinality(CompleteHeaderLines(pos))
    /\ (pc = "exit" /\ outcomes # <<>>) => (pos = Len(stdin) /\ exitCode = 0)

\* A header failed to decode and the header on the next line was decoded.
C9_Witness ==
  /\ Mode = "stream"
  /\ Len(outcomes) = 2
  /\ outcomes[1] \in {"no_fips_codes", "persistence_failure", "publish_failure"}
  /\ outcomes[2] = "ok"
  /\ calls[2].msg = GoodLine
  /\ buffer = <<>>

\* The lines among the first n that are, on their own, a terminated header
\* of the grammar.
WellFormedHeaderLines(n) ==
  {j \in 1..n : SatisfiesGrammar(Strip(stdin[j])) /\ EndsWith(Strip(stdin[j]), "-")}

\* C10: on stdin, piped or interactive, headers on separate lines are
\* decoded as separate messages: there is a decode_same_message call for
\* each header line read so far.
C10_EachHeaderLineDecodedSeparately ==
  Mode # "env" => Len(calls) >= Cardinality(WellFormedHeaderLines(pos))

(* ---------------------------------------------------------------------- *)
(* The store, its schema version and the snapshot                         *)
(* ---------------------------------------------------------------------- *)

\* The ids of the rows of a table.
Ids(table) == {table[i].id : i \in 1..Len(table)}

\* C11: the alerts table is append-only. No step of startup, migration or
\* decoding removes or changes a row; a step that changes the table adds one
\* row whose id is larger than every id before; and a decode that returns
\* has added exactly one row for its header, whether or not the table
\* already held that header.
C11_StoreIsAppendOnly ==
  [][/\ Len(rows') >= Len(rows)
     /\ SubSeq(rows', 1, Len(rows)) = rows
     /\ rows' # rows =>
          /\ Len(rows') = Len(rows) + 1
          /\ \A n \in Ids(rows) : rows'[Len(rows')].id > n
     /\ (outcomes' # outcomes /\ outcomes'[Len(outcomes')] = "ok") =>
          /\ Len(rows') = Len(LastCall.rows) + 1
          /\ rows'[Len(rows')].raw_message = LastCall.msg]_vars

\* A decode has returned for a header the table already held, and the table
\* holds the header twice.
C11_Witness ==
  /\ Returned /\ LastOutcome = "ok"
  /\ \E i \in 1..Len(LastCall.rows) : LastCall.rows[i].raw_message = LastCall.msg
  /\ Cardinality({i \in 1..Len(rows) : rows[i].raw_message = LastCall.msg}) >= 2

\* run_migrations is still at work.
Migrating == pc \in {"init_db", "mig01", "mig12", "set_version"}

\* The version the store held when the run began.
StoredVersion == LatestVersion(env.store.versions)

\* C12: from a store at version 0, and with no I/O or lock error from the
\* environment, run_migrations runs step 0->1 and then step 1->2, records
\* version 1 and then version 2, and leaves the event_code and created_at
\* columns and the four indexes in place.
C12_MigratesFromZeroToTwo ==
  (StoredVersion = 0 /\ ~startup.fault /\ ~Migrating) =>
    /\ startup.steps = <<"v0_to_v1", "v1_to_v2">>
    /\ db.versions = env.store.versions \o <<1, 2>>
    /\ {"event_code", "created_at"} \subseteq db.columns
    /\ AllIndexes \subseteq db.indexes

\* The rows the alerts table held when the run began.
StoredRows == IF env.prior THEN PriorRows(env) ELSE <<>>

\* C13: when the store holds version 2 at startup, run_migrations is a
\* no-op: no migration step runs, no backup is taken, no version record is
\* added, the alerts table stays as it was, and run_migrations returns True.
C13_UpToDateIsNoOp ==
  (StoredVersion = CURRENT_SCHEMA_VERSION /\ pc # "init_db") =>
    /\ startup.steps = <<>>
    /\ backup = <<>> /\ startup.backups = 0
    /\ db.versions = env.store.versions
    /\ db.columns = env.store.columns /\ db.indexes = env.store.indexes
    /\ calls = <<>> => rows = StoredRows
    /\ startup.result = "true"

\* C14: the stored schema version never moves backward: no version record
\* holds a smaller version than the record before it.
C14_VersionNeverMovesBackward ==
  \A i \in 2..Len(db.versions) : db.versions[i] >= db.versions[i - 1]

\* C15: when the store holds a version above 2 at startup, run_migrations
\* returns False without running a step, writing a version record, taking a
\* backup or changing the store; the process exits with status 1 and no
\* message is decoded.
C15_NewerStoreIsFatal ==
  (StoredVersion > CURRENT_SCHEMA_VERSION /\ pc # "init_db") =>
    /\ startup.steps = <<>>
    /\ db.versions = env.store.versions
    /\ db.columns = env.store.columns /\ db.indexes = env.store.indexes
    /\ backup = <<>> /\ rows = StoredRows
    /\ startup.result = "false"
    /\ pc = "exit" /\ exitCode = 1 /\ calls = <<>>

\* The version a migration step brings the store to.
TargetOf(step) == IF step = "v0_to_v1" THEN 1 ELSE 2

\* The number of version records this run has added.
Recorded == Len(db.versions) - Len(env.store.versions)

\* The target of the step that failed: of the migration that raised, or of
\* the migration whose set_schema_version raised.
FailedTarget ==
  IF startup.raisedIn = "set_version"
  THEN TargetOf(startup.steps[Len(startup.steps)])
  ELSE TargetOf(startup.raisedIn)

\* C16: when a migration step raises, run_migrations runs nothing after it
\* and the error ends the process with status 1 before any message is
\* decoded; the version records of earlier runs are as they were, the
\* records this run added are the targets of the steps it completed, all
\* below the target of the failed step, and the latest record is the target
\* of the last completed step.
C16_FailedStepStopsMigration ==
  startup.raisedIn # "none" =>
    /\ pc = "exit" /\ exitCode = 1 /\ startup.result = "raised"
    /\ calls = <<>> /\ ~startup.validated
    /\ Recorded \in {Len(startup.steps), Len(startup.steps) - 1}
    /\ SubSeq(db.versions, 1, Len(env.store.versions)) = env.store.versions
    /\ \A i \in 1..Recorded :
         /\ db.versions[Len(env.store.versions) + i] = TargetOf(startup.steps[i])
         /\ TargetOf(startup.steps[i]) < FailedTarget
    /\ startup.raisedIn # "set_version" => Recorded = Len(startup.steps)

\* Step 1->2 has raised after step 0->1 was completed and recorded in this
\* run: the latest version record is 1.
C16_Witness ==
  /\ startup.raisedIn = "v1_to_v2"
  /\ startup.steps = <<"v0_to_v1">>
  /\ Recorded = 1 /\ LatestVersion(db.versions) = 1

\* The snapshot file the run found at startup.
StoredSnapshot ==
  IF env.prior THEN <<JsonFile(MessageData(PriorAlert(env), env.tz, 0))>> ELSE <<>>

\* C17: a startup failure is fatal before any message is processed. When
\* run_migrations raises or returns False, get_database_stats raises, or a
\* reference table cannot be loaded, the process exits with status 1 and in
\* that run no decode_same_message call is made, no row is added and the
\* snapshot is not touched, whatever the input mode.
C17_StartupFailureIsFatal ==
  startup.failed =>
    /\ pc = "exit" /\ exitCode = 1
    /\ calls = <<>> /\ outcomes = <<>> /\ pos = 0
    /\ rows = StoredRows
    /\ snapshot = StoredSnapshot /\ tmpFile = <<>>

\* get_database_stats or the load of the reference tables has failed after
\* run_migrations returned True, in stream mode.
C17_Witness ==
  /\ startup.failed /\ startup.result = "true"
  /\ csvCache = EmptyCache
  /\ Mode = "stream"

\* C18: whenever a header is decoded, validate_schema has in this run found
\* every expected column in the alerts table.
C18_DecodesOnlyValidatedStore ==
  calls # <<>> => (startup.validated /\ ExpectedColumns \subseteq db.columns)

\* write_last_message is at work.
Publishing == pc \in {"publish", "dump", "rename"}

\* The snapshot write_last_message builds for the alert, whatever its
\* "updated" time.
IsSnapshotOf(file, a) ==
  /\ file # <<>> /\ file[1].complete
  /\ file[1].json = [MessageData(a, env.tz, 0) EXCEPT !.updated = file[1].json.updated]

\* C19: publishing is atomic for a reader of the published path. At every
\* point read_payload gets no file or a complete JSON text, never a part of
\* one; while write_last_message is at work it gets what it got before the
\* call, and once the call has returned it gets the complete new snapshot.
C19_ReaderNeverSeesPartialSnapshot ==
  /\ ReadPayload(snapshot).status # "invalid_json"
  /\ Publishing => ReadPayload(snapshot) = ReadPayload(LastCall.snapshot)
  /\ (Returned /\ LastOutcome = "ok") => IsSnapshotOf(snapshot, alert[1])

\* json.dump is writing the temporary file while the published path holds
\* the complete snapshot of an earlier alert.
C19_Witness ==
  /\ pc = "dump"
  /\ tmpFile # <<>> /\ ~tmpFile[1].complete
  /\ snapshot # <<>> /\ snapshot[1].complete
  /\ snapshot[1].json.event # tmpFile[1].json.event

\* The calls that have returned without an error.
Succeeded == {i \in 1..Len(outcomes) : outcomes[i] = "ok"}

\* The latest of them.
LastSucceeded == CHOOSE i \in Succeeded : \A j \in Succeeded : j <= i

\* The alert decode_same_message builds for a header.
AlertOf(header) ==
  CreateAlertData(ParseSameMessage(header), header, csvCache, env.year)

\* C20: the published snapshot holds one alert, that of the most recent
\* header whose decode returned without an error; while no decode of this
\* run has done so it is the snapshot the run found. Headers that fail,
\* after it or before, leave it alone.
C20_SnapshotIsLatestDecodedAlert ==
  IF Succeeded = {}
  THEN snapshot = StoredSnapshot
  ELSE /\ snapshotSrc = calls[LastSucceeded].msg
       /\ IsSnapshotOf(snapshot, AlertOf(calls[LastSucceeded].msg))

\* A header was decoded and published, the next one failed, and the snapshot
\* is still that of the first.
C20_Witness ==
  /\ Len(outcomes) = 2
  /\ outcomes[1] = "ok" /\ outcomes[2] # "ok"
  /\ calls[1].msg # calls[2].msg
  /\ snapshotSrc = calls[1].msg

\* What read_payload gets once call i has returned.
SnapshotAfter(i) == IF i < Len(calls) THEN calls[i + 1].snapshot ELSE snapshot

\* The calls in which write_last_message raised.
PublishFailed == {i \in 1..Len(outcomes) : outcomes[i] = "publish_failure"}

\* What holds of a failed snapshot write apart from the temporary file: the
\* published path holds the complete snapshot it held before the call, and
\* in stream mode the loop reads on with an empty buffer, every complete
\* header line read has caused one decode, and the loop stops at the end of
\* the input only.
PublishFailureIsContained ==
  /\ \A i \in PublishFailed :
       /\ SnapshotAfter(i) = calls[i].snapshot
       /\ ReadPayload(SnapshotAfter(i)).status # "invalid_json"
  /\ (Mode = "stream" /\ Returned /\ LastOutcome = "publish_failure") =>
       /\ pos = LastCall.pos => buffer = <<>>
       /\ Len(calls) = Cardinality(CompleteHeaderLines(pos))
       /\ pc = "ready" \/ (pc = "exit" /\ pos = Len(stdin) /\ exitCode = 0)

\* C21 as stated: when the snapshot write fails the published snapshot stays
\* as it was, unchanged and complete, no temporary file is left behind, and
\* in stream mode the next framed header is decoded.
C21_PublishFailureLeavesNoTempFile ==
  /\ PublishFailureIsContained
  /\ (Returned /\ LastOutcome = "publish_failure") => tmpFile = <<>>

\* C21, amended: when the snapshot write fails the published snapshot stays
\* as it was, unchanged and complete, the temporary file is removed unless
\* os.unlink fails on it, and in stream mode the next framed header is
\* decoded.
C21_PublishFailureKeepsSnapshot ==
  /\ PublishFailureIsContained
  /\ (Returned /\ LastOutcome = "publish_failure") => (tmpFile = <<>> \/ unlinkFailed)

\* In stream mode the rename failed over a published snapshot, the
\* temporary file was removed, and the header on a later line was decoded
\* and published.
C21_Witness ==
  /\ Mode = "stream"
  /\ Len(outcomes) = 2
  /\ outcomes[1] = "publish_failure" /\ outcomes[2] = "ok"
  /\ calls[1].snapshot # <<>>
  /\ calls[2].snapshot = calls[1].snapshot
  /\ tmpFile = <<>>

\* The rows of the table once call i has returned.
RowsAfter(i) == IF i < Len(calls) THEN calls[i + 1].rows ELSE rows

\* The calls in which log_alert_to_db raised.
PersistFailed == {i \in 1..Len(outcomes) : outcomes[i] = "persistence_failure"}

\* The calls that got past log_alert_to_db: each has added one row.
Persisted ==
  {i \in 1..Len(calls) :
     IF i <= Len(outcomes) THEN outcomes[i] \in {"ok", "publish_failure"} ELSE Publishing}

\* C22: when the store write for a header fails, the call adds no row and
\* leaves the snapshot alone, the header is not handed to
\* decode_same_message again (each call is made for lines read after the
\* call before it, and the table has one row per call that got past the
\* store write), and in stream mode the loop goes on with the next framed
\* header up to the end of the input; in the other modes main exits with
\* status 1.
C22_FailedStoreWriteLosesTheAlert ==
  /\ \A i \in PersistFailed :
       /\ RowsAfter(i) = calls[i].rows
       /\ SnapshotAfter(i) = calls[i].snapshot
       /\ i < Len(calls) => calls[i + 1].pos > calls[i].pos
  /\ PersistFailed # {} => Len(rows) = Len(StoredRows) + Cardinality(Persisted)
  /\ (Returned /\ LastOutcome = "persistence_failure") =>
       IF Mode = "stream"
       THEN /\ pos = LastCall.pos => buffer = <<>>
            /\ Len(calls) = Cardinality(CompleteHeaderLines(pos))
            /\ pc = "ready" \/ (pc = "exit" /\ pos = Len(stdin) /\ exitCode = 0)
       ELSE Len(calls) = 1 /\ pc = "exit" /\ exitCode = 1

\* In stream mode the store write for a header failed and the header on a
\* later line was decoded, stored and published.
C22_Witness ==
  /\ Mode = "stream"
  /\ Len(outcomes) = 2
  /\ outcomes[1] = "persistence_failure" /\ outcomes[2] = "ok"
  /\ Len(rows) = Len(calls[1].rows) + 1
  /\ rows[Len(rows)].raw_message = calls[2].msg
  /\ snapshotSrc = calls[2].msg

\* s without its blanks.
Unspaced(s) == RemoveAll(s, <<" ">>)

\* The region list of the alert the published snapshot was written for, the
\* region list the snapshot shows, and the row stored for that alert.
PublishedAlert == AlertOf(calls[LastSucceeded].msg)
AlertRegions == PublishedAlert.region_descriptions
SnapshotRegions == snapshot[1].json.regions
PublishedRow == calls[LastSucceeded].rows

\* C23: once a decode of this run has published, if every region name of
\* the alert contains "County" the snapshot's list is the alert's list with
\* that token removed from every entry (blanks aside), and otherwise it is
\* the alert's list unchanged; in both cases the stored row holds the
\* alert's own names, joined by ", ".
C23_CountyRemovedFromEveryEntry ==
  Succeeded # {} =>
    /\ Len(SnapshotRegions) = Len(AlertRegions)
    /\ IF \A i \in 1..Len(AlertRegions) : ContainsSub(AlertRegions[i], County)
       THEN \A i \in 1..Len(AlertRegions) :
              /\ ~ContainsSub(SnapshotRegions[i], County)
              /\ Unspaced(SnapshotRegions[i]) = Unspaced(RemoveAll(AlertRegions[i], County))
       ELSE SnapshotRegions = AlertRegions
    /\ RowsAfter(LastSucceeded)[Len(calls[LastSucceeded].rows) + 1].regions
         = Join(AlertRegions, <<",", " ">>)

\* create_alert_data has returned in the call under way.
Enriched == pc \in {"persist", "publish", "dump", "rename"}

\* C24: a catalog miss never makes enrichment fail. The region list of an
\* alert has one entry per area code, in the order of the codes: the
\* catalog's name for the code where it has one, "Unknown Region (<code>)"
\* with that code where it has none; and a call whose header parses fails,
\* if at all, in the store write or the snapshot write.
C24_RegionsResolvedWithFallback ==
  /\ Enriched =>
       LET codes == parsed.fips_codes
           names == alert[1].region_descriptions
       IN /\ Len(names) = Len(codes)
          /\ \A i \in 1..Len(codes) :
               IF codes[i] \in DOMAIN csvCache.counties
               THEN names[i] = csvCache.counties[codes[i]]
               ELSE names[i] = <<"U", "n", "k", "n", "o", "w", "n", " ", "R", "e", "g", "i", "o", "n", " ", "(">>
                                 \o codes[i] \o <<")">>
  /\ (Returned /\ parsed.err = "none" /\ IntOk(parsed.duration)) =>
       LastOutcome \in {"ok", "persistence_failure", "publish_failure"}

\* An alert was built for a header whose area codes are in part in the
\* catalog and in part not, an unknown one between two known ones.
C24_Witness ==
  /\ Enriched
  /\ \E i, j, k \in 1..Len(parsed.fips_codes) :
       /\ i < j /\ j < k
       /\ parsed.fips_codes[i] \in DOMAIN csvCache.counties
       /\ parsed.fips_codes[j] \notin DOMAIN csvCache.counties
       /\ parsed.fips_codes[k] \in DOMAIN csvCache.counties
       /\ parsed.fips_codes[i] # parsed.fips_codes[k]

\* The row call i has added to the table.
RowOf(i) == rows[Len(calls[i].rows) + 1]

\* C25: the row stored for a header of the grammar (checked on the row of
\* the latest call; rows once stored do not change) holds the header's
\* event code in event_code, the header itself in raw_message and the
\* header's timestamp token in issued_code; originator and event hold the
\* catalog's names for the two codes, and the codes themselves where the
\* catalog has no entry.
C25_RowKeepsRawCodes ==
  (Len(calls) \in Persisted /\ SatisfiesGrammar(LastCall.msg)) =>
    LET row == RowOf(Len(calls))
        g == GrammarFields(LastCall.msg)
    IN /\ row.raw_message = LastCall.msg
       /\ row.event_code = g.event_code
       /\ row.issued_code = g.timestamp
       /\ row.originator = IF g.originator \in DOMAIN csvCache.originators
                           THEN csvCache.originators[g.originator]
                           ELSE g.originator
       /\ row.event = IF g.event_code \in DOMAIN csvCache.events
                      THEN csvCache.events[g.event_code]
                      ELSE g.event_code

\* Two rows were stored with a catalog that knows the originator and the
\* event of the first header and not those of the second.
C25_Witness ==
  /\ Cardinality(Persisted) = 2
  /\ \A i \in Persisted : SatisfiesGrammar(calls[i].msg)
  /\ \E i, j \in Persisted :
       /\ RowOf(i).event # RowOf(i).event_code
       /\ RowOf(i).originator # GrammarFields(calls[i].msg).originator
       /\ RowOf(j).event = RowOf(j).event_code
       /\ RowOf(j).originator = GrammarFields(calls[j].msg).originator

\* run_migrations has got to its migration steps.
StepsBegun == pc \in {"mig01", "mig12"} \/ startup.steps # <<>>

\* C26: when run_migrations runs a migration step, alerts.db.backup holds the
\* schema, the version records and the rows the store had when the run
\* began, and keeps them while the steps change the store; there is no
\* backup only if there was no database file to copy.
C26_BackupHoldsPreMigrationStore ==
  StepsBegun =>
    IF env.store.file
    THEN backup = <<[db |-> env.store, rows |-> StoredRows]>>
    ELSE backup \in {<<>>, <<[db |-> [env.store EXCEPT !.file = TRUE], rows |-> <<>>]>>}

\* A step has added a column to a store that held a row, and the backup
\* still has the table as it was.
C26_Witness ==
  /\ startup.steps # <<>>
  /\ backup # <<>>
  /\ backup[1].rows # <<>>
  /\ backup[1].db.columns # db.columns
  /\ backup[1].db.columns = env.store.columns

\* C27: parse_same_message returns no partly valid result. Every result it
\* returns has a non-empty originator, event code and station id, at least
\* one area code, area codes that are all decimal digits and all of one
\* width, a duration of 4 decimal digits and a timestamp of 7 decimal
\* digits.
C27_NoPartlyValidParse ==
  parsed.err = "none" =>
    /\ parsed.originator # <<>> /\ parsed.event_code # <<>> /\ parsed.station_id # <<>>
    /\ parsed.fips_codes # <<>>
    /\ \A i \in 1..Len(parsed.fips_codes) :
         /\ Numeric(parsed.fips_codes[i])
         /\ Len(parsed.fips_codes[i]) = Len(parsed.fips_codes[1])
    /\ Len(parsed.duration) = 4 /\ Numeric(parsed.duration)
    /\ Len(parsed.timestamp) = 7 /\ Numeric(parsed.timestamp)

\* The buffer is empty or begins with the start marker.
BufferFramed(b) == b = <<>> \/ StartsWith(b, StartMarker)

RowBehind(row, file, header) ==
  /\ row.raw_message = header
  /\ row.event = file.json.event
  /\ row.originator = file.json.originator
  /\ row.source = file.json.source
  /\ row.duration_minutes = file.json.duration_minutes
  /\ "event_code" \in DOMAIN row => row.event_code = file.json.event_code

\* C29: decode_same_message stores the row before it publishes the snapshot:
\* at every point the alert the published snapshot shows has a row in the
\* alerts table, that of the header the snapshot was written for.
C29_PublishedAlertHasRow ==
  snapshot # <<>> =>
    \E i \in 1..Len(rows) : RowBehind(rows[i], snapshot[1], snapshotSrc)

\* The reverse does not hold: the latest row is that of an alert whose
\* snapshot write failed, and the snapshot shows an earlier alert.
C29_Witness ==
  /\ Returned /\ LastOutcome = "publish_failure"
  /\ Succeeded # {}
  /\ snapshotSrc = calls[LastSucceeded].msg
  /\ rows[Len(rows)].raw_message = LastCall.msg
  /\ LastCall.msg # snapshotSrc
  /\ ~RowBehind(rows[Len(rows)], snapshot[1], snapshotSrc)

\* The stores a run has left that stopped after a step had changed the
\* schema and before the step's version was recorded.
Interrupted == env.store \in {HalfMigratedStore, InterruptedStore}

\* C30: run_migrations on a store that an interrupted run has left, and with
\* no I/O or lock error from the environment, applies the step again without
\* an error, keeps every row, and ends with version 2 recorded and a schema
\* that validate_schema accepts.
C30_RerunCompletesInterruptedStep ==
  (Interrupted /\ ~startup.fault /\ pc \notin {"init_db", "mig01", "mig12", "set_version", "validate"}) =>
    /\ startup.raisedIn = "none"
    /\ startup.result = "true"
    /\ startup.steps = <<"v1_to_v2">>
    /\ startup.validated
    /\ LatestVersion(db.versions) = CURRENT_SCHEMA_VERSION
    /\ ExpectedColumns \subseteq db.columns
    /\ Len(rows) >= Len(StoredRows)
    /\ SubSeq(rows, 1, Len(StoredRows)) = StoredRows

====
